---- MODULE Spec2Model ----
(***************************************************************************)
(* Model of the citation-record reconciliation pipeline of                 *)
(* scripts/collect_citations.py: browser pagination per scope, dedup,      *)
(* Crossref enrichment through a title-keyed cache, the self-citation      *)
(* filter and the output rows.                                             *)
(*                                                                         *)
(* A Python str is modelled as a sequence of one-character strings, so     *)
(* that lowercasing, punctuation handling, whitespace collapsing and the   *)
(* similarity ratio are computed as the code computes them.  Where the     *)
(* code treats None and the empty value alike (truthiness tests), both are *)
(* the empty sequence; an absent int is NoYear and an absent score NoScore.*)
(***************************************************************************)
EXTENDS Integers, Sequences, FiniteSets, TLC

\* ------------------------------------------------------------------------
\* Characters
\* ------------------------------------------------------------------------

\* U+00A0, the no-break space; one code point, written as one token.
NBSP == "nbsp"
\* U+2026, the horizontal ellipsis; one code point, written as one token.
ELLIPSIS == "hellip"
\* U+7B49, the CJK "et al." marker.
DENG == "deng"

UpperLetters == <<"A","B","C","D","E","F","G","H","I","J","K","L","M",
                  "N","O","P","Q","R","S","T","U","V","W","X","Y","Z">>
LowerLetters == <<"a","b","c","d","e","f","g","h","i","j","k","l","m",
                  "n","o","p","q","r","s","t","u","v","w","x","y","z">>
Digits == {"0","1","2","3","4","5","6","7","8","9"}

Range(s) == {s[i] : i \in DOMAIN s}

\* The element of a one-element set: Only({ body : x \in {e} }) is body with x
\* bound to the value of e, computed once.
Only(S) == CHOOSE v \in S : TRUE

\* str.lower() on one character.
LowerChar(c) ==
    IF \E i \in DOMAIN UpperLetters : UpperLetters[i] = c
    THEN LowerLetters[CHOOSE i \in DOMAIN UpperLetters : UpperLetters[i] = c]
    ELSE c

\* The regex class \w (letters, digits, underscore; DENG and the token of the
\* CJK characters of the missing-value sentinel are letters).
IsWord(c) ==
    c \in Range(UpperLetters) \cup Range(LowerLetters) \cup Digits \cup {"_", DENG, "missing"}

\* The regex class \s, which is also what str.strip() strips: the characters
\* for which str.isspace() holds. Those of ASCII are the space, U+0009 to
\* U+000D and U+001C to U+001F, the ones without an escape written as the
\* characters themselves; the others are U+0085, U+00A0, U+1680, U+2000 to
\* U+200A, U+2028, U+2029, U+202F, U+205F and U+3000, one token each, named
\* by its code point.
IsSpace(c) ==
    c \in {" ", "\t", "\n", "", "\f", "\r", "", "", "", "",
           "u0085", NBSP, "u1680", "u2000", "u2001", "u2002", "u2003", "u2004",
           "u2005", "u2006", "u2007", "u2008", "u2009", "u200a",
           "u2028", "u2029", "u202f", "u205f", "u3000"}

\* The characters here that take more than one byte in UTF-8.
MultiByte ==
    {"u0085", NBSP, "u1680", "u2000", "u2001", "u2002", "u2003", "u2004",
     "u2005", "u2006", "u2007", "u2008", "u2009", "u200a",
     ELLIPSIS, "u2028", "u2029", "u202f", "u205f", "u3000", "missing", DENG}

DigitVal(c) == CHOOSE n \in 0..9 : <<"0","1","2","3","4","5","6","7","8","9">>[n + 1] = c

\* ------------------------------------------------------------------------
\* String helpers
\* ------------------------------------------------------------------------

Lower(s) == [i \in DOMAIN s |-> LowerChar(s[i])]

RECURSIVE Flatten(_)
Flatten(ss) == IF ss = <<>> THEN <<>> ELSE Head(ss) \o Flatten(Tail(ss))

\* sep.join(parts)
RECURSIVE Join(_, _)
Join(sep, parts) ==
    IF parts = <<>> THEN <<>>
    ELSE IF Len(parts) = 1 THEN parts[1]
    ELSE parts[1] \o sep \o Join(sep, Tail(parts))

\* s.split(sep) is SplitAt(s, sep, <<>>), cur being the part read so far:
\* always at least one part.
RECURSIVE SplitAt(_, _, _)
SplitAt(s, sep, cur) ==
    IF s = <<>> THEN <<cur>>
    ELSE IF Len(s) >= Len(sep) /\ SubSeq(s, 1, Len(sep)) = sep
    THEN <<cur>> \o SplitAt(SubSeq(s, Len(sep) + 1, Len(s)), sep, <<>>)
    ELSE SplitAt(Tail(s), sep, Append(cur, Head(s)))

\* needle in hay, for strings.
Contains(hay, needle) ==
    \E i \in 0..(Len(hay) - Len(needle)) :
        \A k \in 1..Len(needle) : hay[i + k] = needle[k]

\* The characters in code point order, the order in which str comparison and
\* sorted() put them, from U+0009 on (without U+000E to U+001B, the grave
\* accent and U+007F, which no string here holds).
CodePoints ==
    <<"\t", "\n", "", "\f", "\r", "", "", "", "", " ", "!", "\"", "#", "$", "%", "&", "'", "(", ")", "*", "+",
      ",", "-", ".", "/", "0", "1", "2", "3", "4", "5", "6", "7", "8", "9", ":", ";", "<",
      "=", ">", "?", "@">>
    \o UpperLetters \o <<"[", "\\", "]", "^", "_">> \o LowerLetters
    \o <<"{", "|", "}", "~", "u0085", NBSP, "u1680", "u2000", "u2001", "u2002", "u2003",
         "u2004", "u2005", "u2006", "u2007", "u2008", "u2009", "u200a", ELLIPSIS,
         "u2028", "u2029", "u202f", "u205f", "u3000", "missing", DENG>>

\* a < b for strings.
RECURSIVE StrLess(_, _)
StrLess(a, b) ==
    IF b = <<>> THEN FALSE
    ELSE IF a = <<>> THEN TRUE
    ELSE IF Head(a) = Head(b) THEN StrLess(Tail(a), Tail(b))
    ELSE (CHOOSE i \in DOMAIN CodePoints : CodePoints[i] = Head(a))
           < (CHOOSE i \in DOMAIN CodePoints : CodePoints[i] = Head(b))

\* sorted(S) for a set of strings.
RECURSIVE sorted(_)
sorted(S) ==
    IF S = {} THEN <<>>
    ELSE Only({ <<m>> \o sorted(S \ {m}) : m \in {x \in S : \A y \in S \ {x} : StrLess(x, y)} })

\* ------------------------------------------------------------------------
\* normalize_whitespace, normalize_author_name, normalize_title
\* ------------------------------------------------------------------------

\* re.sub(r"\s+", " ", ...): every maximal run of whitespace becomes one space.
RECURSIVE CollapseSpaces(_, _)
CollapseSpaces(s, inRun) ==
    IF s = <<>> THEN <<>>
    ELSE IF IsSpace(Head(s))
         THEN (IF inRun THEN <<>> ELSE <<" ">>) \o CollapseSpaces(Tail(s), TRUE)
         ELSE <<Head(s)>> \o CollapseSpaces(Tail(s), FALSE)

\* str.strip() of a string whose only whitespace is single spaces.
Strip(s) ==
    LET a == IF s # <<>> /\ IsSpace(s[1]) THEN 2 ELSE 1
        b == IF s # <<>> /\ IsSpace(s[Len(s)]) THEN Len(s) - 1 ELSE Len(s)
    IN  IF a > b THEN <<>> ELSE SubSeq(s, a, b)

normalize_whitespace(text) ==
    Strip(CollapseSpaces([i \in DOMAIN text |-> IF text[i] = NBSP THEN " " ELSE text[i]], FALSE))

\* re.sub(r"[^\w\s]", "", name): punctuation is deleted.
RECURSIVE DeletePunct(_)
DeletePunct(s) ==
    IF s = <<>> THEN <<>>
    ELSE IF IsWord(Head(s)) \/ IsSpace(Head(s))
         THEN <<Head(s)>> \o DeletePunct(Tail(s))
         ELSE DeletePunct(Tail(s))

normalize_author_name(name) == normalize_whitespace(DeletePunct(Lower(name)))

\* re.sub(r"[^\w\s]", " ", title.lower()): punctuation becomes a space.
SpacePunct(s) == [i \in DOMAIN s |-> IF IsWord(s[i]) \/ IsSpace(s[i]) THEN s[i] ELSE " "]

normalize_title(title) == normalize_whitespace(SpacePunct(Lower(title)))

\* ------------------------------------------------------------------------
\* parse_authors, extract_year, the truncation markers
\* ------------------------------------------------------------------------

RECURSIVE KeepAuthors(_)
KeepAuthors(cands) ==
    IF cands = <<>> THEN <<>>
    ELSE IF Head(cands) # <<>> /\ Head(cands) \notin {<<ELLIPSIS>>, <<".", ".", ".">>}
         THEN <<Head(cands)>> \o KeepAuthors(Tail(cands))
         ELSE KeepAuthors(Tail(cands))

parse_authors(authors_raw) ==
    IF authors_raw = <<>> THEN <<>>
    ELSE LET authors_segment == SplitAt(authors_raw, <<"-">>, <<>>)[1]
             parts == SplitAt(authors_segment, <<",">>, <<>>)
             candidates == [i \in DOMAIN parts |-> normalize_whitespace(parts[i])]
         IN  KeepAuthors(candidates)

\* Optional[int] None (year, crossref_year, total_results, total_expected).
NoYear == 0

\* re.search(r"(19|20|21)\d{2}", meta): the leftmost match, as an int.
YearAt(meta, i) ==
    /\ i + 3 <= Len(meta)
    /\ <<meta[i], meta[i + 1]>> \in {<<"1","9">>, <<"2","0">>, <<"2","1">>}
    /\ meta[i + 2] \in Digits
    /\ meta[i + 3] \in Digits

extract_year(meta) ==
    IF meta = <<>> \/ ~ \E i \in DOMAIN meta : YearAt(meta, i) THEN NoYear
    ELSE LET i == CHOOSE k \in DOMAIN meta :
                      YearAt(meta, k) /\ \A m \in 1..(k - 1) : ~ YearAt(meta, m)
         IN  1000 * DigitVal(meta[i]) + 100 * DigitVal(meta[i + 1])
               + 10 * DigitVal(meta[i + 2]) + DigitVal(meta[i + 3])

\* fetch_page_entries: the "et al." markers of the scraped author line.
AuthorsTruncated(authors_raw) ==
    /\ authors_raw # <<>>
    /\ \/ Contains(authors_raw, <<ELLIPSIS>>)
       \/ Contains(authors_raw, <<".", ".", ".">>)
       \/ Contains(Lower(authors_raw), <<DENG>>)

\* ------------------------------------------------------------------------
\* sequence_score: difflib.SequenceMatcher(None, a, b).ratio()
\* A float ratio 2*M/T is kept as the fraction in lowest terms, so that equal
\* floats are equal values and comparisons are exact.
\* ------------------------------------------------------------------------

RECURSIVE Gcd(_, _)
Gcd(x, y) == IF y = 0 THEN x ELSE Gcd(y, x % y)

Frac(n, d) == LET g == Gcd(n, d) IN [num |-> n \div g, den |-> d \div g]

\* Optional[float] None (crossref_score of an entry without a score).
NoScore == [num |-> 0, den |-> 0]

ScoreLT(x, y) == x.num * y.den < y.num * x.den

\* Length of the common run of a[i..ahi) and b[j..bhi) (0-based, half-open).
RECURSIVE RunLen(_, _, _, _, _, _)
RunLen(a, b, i, j, ahi, bhi) ==
    IF i < ahi /\ j < bhi /\ a[i + 1] = b[j + 1]
    THEN 1 + RunLen(a, b, i + 1, j + 1, ahi, bhi)
    ELSE 0

\* The longest matching block; of the longest, the one starting earliest in a,
\* and of those the one starting earliest in b.  No junk, no autojunk (strings
\* shorter than 200).
find_longest_match(a, b, alo, ahi, blo, bhi) ==
    LET blocks == {<<i, j, RunLen(a, b, i, j, ahi, bhi)>> :
                       i \in alo..(ahi - 1), j \in blo..(bhi - 1)}
    IN  IF \A p \in blocks : p[3] = 0 THEN <<alo, blo, 0>>
        ELSE CHOOSE p \in blocks :
                 \A q \in blocks :
                     \/ q[3] < p[3]
                     \/ /\ q[3] = p[3]
                        /\ \/ p[1] < q[1]
                           \/ p[1] = q[1] /\ p[2] <= q[2]

\* get_matching_blocks: the sum of the sizes of the blocks.
RECURSIVE MatchCount(_, _, _, _, _, _)
MatchCount(a, b, alo, ahi, blo, bhi) ==
    Only({ IF m[3] = 0 THEN 0
           ELSE m[3]
                + (IF alo < m[1] /\ blo < m[2]
                   THEN MatchCount(a, b, alo, m[1], blo, m[2]) ELSE 0)
                + (IF m[1] + m[3] < ahi /\ m[2] + m[3] < bhi
                   THEN MatchCount(a, b, m[1] + m[3], ahi, m[2] + m[3], bhi) ELSE 0)
           : m \in {find_longest_match(a, b, alo, ahi, blo, bhi)} })

sequence_score(a, b) ==
    LET length == Len(a) + Len(b)
    IN  IF length = 0 THEN Frac(1, 1)
        ELSE Frac(2 * MatchCount(a, b, 0, Len(a), 0, Len(b)), length)

\* ------------------------------------------------------------------------
\* Constants of collect_citations.py
\* ------------------------------------------------------------------------

RESULTS_PER_PAGE == 10

ORIGINAL_AUTHORS ==
    { <<"p","e","t","e","r"," ","c"," ","m","a">>,
      <<"p","c"," ","m","a">>,
      <<"p"," ","c"," ","m","a">>,
      <<"y","u"," ","l","v">>,
      <<"y"," ","l","v">>,
      <<"m","a","t","t","h","i","a","s"," ","i","h","m","e">>,
      <<"m"," ","i","h","m","e">> }

\* The sentinel written where a value is missing (a four-character CJK
\* string in the source), as one token.
MISSING == <<"missing">>

\* ------------------------------------------------------------------------
\* Bounds and inputs
\* ------------------------------------------------------------------------

\* main scrapes the years 2016..today; the model scrapes FirstYear..FirstYear+NumYears-1.
FirstYear == 2016
NumYears == 1
\* The site serves at most MaxPages non-empty result pages per scope.
MaxPages == 1
\* Runs of the pipeline over the same fetched records.
MaxRuns == 2

years == [i \in 1..NumYears |-> FirstYear + i - 1]
\* scrape_targets = years + [None]
scrape_targets == years \o <<NoYear>>

\* A result entry of a page (a DOM handle): the texts the selectors return,
\* empty when the element is missing; raises marks an entry whose parsing
\* throws.
Entry(title, href, authors, cid, raises) ==
    [title |-> title, href |-> href, authors |-> authors, snippet |-> <<>>,
     cid |-> cid, raises |-> raises]

\* "Ab Cd" by "J Smith, K Lee - J, 2020", cluster c1.
e1 == Entry(<<"A","b"," ","C","d">>, <<"u","1">>,
            <<"J"," ","S","m","i","t","h",","," ","K"," ","L","e","e"," ","-"," ",
              "J",","," ","2","0","2","0">>,
            <<"c","1">>, FALSE)
\* "Xy." by "PC Ma, Y Lv(ellipsis) - J, 2019", cluster c1 (another listing of the cluster).
e2 == Entry(<<"X","y",".">>, <<>>,
            <<"P","C"," ","M","a",","," ","Y"," ","L","v",ELLIPSIS,NBSP,"-"," ",
              "J",","," ","2","0","1","9">>,
            <<"c","1">>, FALSE)
\* "ab-cd" by "P.C. Ma", no cluster id.
e3 == Entry(<<"a","b","-","c","d">>, <<>>,
            <<"P",".","C","."," ","M","a">>,
            <<>>, FALSE)
\* " Xy" with no author line, cluster c2.
e4 == Entry(<<" ","X","y">>, <<"u","4">>, <<>>, <<"c","2">>, FALSE)
\* An entry whose parsing throws, and one without a title.
eBad == Entry(<<"Z">>, <<>>, <<>>, <<>>, TRUE)
eNoTitle == Entry(<<>>, <<>>, <<"K"," ","L","e","e">>, <<"c","3">>, FALSE)

\* The non-empty result pages the site may serve.
PagePool == { <<e1, eBad, e3>>, <<e4, eNoTitle, e1>>, <<e2, e1>> }

\* What the result-count summary of a first page may parse to.
TotalPool == {NoYear, 3, 10, 11}

\* "Old", cluster c9: a record of an earlier run that the site lists no more.
eOld == Entry(<<"O","l","d">>, <<>>, <<>>, <<"c","9">>, FALSE)

\* ------------------------------------------------------------------------
\* fetch_page_entries
\* ------------------------------------------------------------------------

ScholarRecord(h, start) ==
    LET raw_meta == normalize_whitespace(h.authors)
    IN  [title |-> normalize_whitespace(h.title),
         url |-> h.href,
         authors_raw |-> raw_meta,
         snippet |-> normalize_whitespace(h.snippet),
         raw_meta |-> raw_meta,
         year |-> extract_year(raw_meta),
         cluster_id |-> h.cid,
         page_index |-> start \div RESULTS_PER_PAGE,
         authors_list |-> parse_authors(h.authors),
         authors_truncated |-> AuthorsTruncated(h.authors)]

\* The records of one page: an entry that throws or has no title is skipped.
RECURSIVE PageRecords(_, _)
PageRecords(handles, start) ==
    IF handles = <<>> THEN <<>>
    ELSE LET h == Head(handles)
         IN  IF h.raises \/ h.title = <<>>
             THEN PageRecords(Tail(handles), start)
             ELSE <<ScholarRecord(h, start)>> \o PageRecords(Tail(handles), start)

\* (records, total_results): the total is read on the first page only.
fetch_page_entries(handles, summary, start) ==
    [records |-> PageRecords(handles, start),
     total_results |-> IF start = 0 THEN summary ELSE NoYear]

\* A JSON value as the scripts handle it: null, a list or an object, with the
\* elements of the list or the keys of the object.
JsonNull == [type |-> "null", items |-> <<>>]
JsonList(items) == [type |-> "list", items |-> items]

\* bool(value) for null, lists and objects.
Truthy(value) == value.items # <<>>

\* The file at RAW_SCHOLAR_JSON (data/citations_raw.json, which is also the
\* default output_json of openalex_citations.py) before the run: missing, or
\* the records an earlier run wrote. json.dumps of asdict(record) is read
\* back by json.loads as an object with the fields of the record.
RawFilePool ==
    { [kind |-> "missing", data |-> JsonNull],
      [kind |-> "json", data |-> JsonList(<<ScholarRecord(eOld, 0), ScholarRecord(e1, 0)>>)] }

\* ------------------------------------------------------------------------
\* Crossref responses
\* ------------------------------------------------------------------------

\* An author of a work: the name parts and the affiliation names, each empty
\* when the key is absent.
Author(given, family, name, affiliation) ==
    [given |-> given, family |-> family, name |-> name, affiliation |-> affiliation]

\* A work of the response: title and container-title lists, the authors, the
\* DOI and the year of issued.date-parts, empty or NoYear when absent.
Work(title, author, doi, container, issued) ==
    [title |-> title, author |-> author, DOI |-> doi,
     container_title |-> container, issued |-> issued]

aSmith == Author(<<"J","o","h","n">>, <<"S","m","i","t","h">>, <<>>, << <<"M","I","T">>, <<>> >>)
aMa == Author(<<>>, <<>>, <<"P","."," ","C","."," ","M","a">>, <<>>)
aPeterMa == Author(<<"P","e","t","e","r">>, <<"M","a">>, <<>>, << <<"S","U">> >>)
aAnon == Author(<<>>, <<>>, <<>>, << <<"E","T","H">> >>)

\* Titled "Ab Cd": similarity 1 with "ab cd".
wExact == Work(<< <<"A","b"," ","C","d">> >>, <<aSmith>>, <<"1","0",".","1">>, << <<"J">> >>, 2021)
\* Titled "ab xy": similarity exactly 0.6 with "ab cd".
wSix == Work(<< <<"a","b"," ","x","y">> >>, <<aPeterMa, aAnon>>, <<"1","0",".","2">>, <<>>, NoYear)
\* Titled "ab xyz": similarity 6/11 with "ab cd".
wLow == Work(<< <<"a","b"," ","x","y","z">> >>, <<aMa>>, <<"1","0",".","3">>, <<>>, 2018)
\* Titled "XY": similarity 1 with "xy"; no authors.
wXy == Work(<< <<"X","Y">> >>, <<>>, <<"1","0",".","4">>, << <<"K">> >>, 2019)
\* A work without a title.
wNoTitle == Work(<<>>, <<aSmith>>, <<"1","0",".","5">>, <<>>, 2020)

\* What one request may come back with: a failure, with the text str(exc) of
\* its exception, or the items of the response in order.
Response(items) == [ok |-> TRUE, items |-> items, error |-> <<>>]
\* A request that timed out, and one that was refused where the message of
\* the system is localized and holds a CJK character.
HttpError ==
    [ok |-> FALSE, items |-> <<>>, error |-> <<"t","i","m","e","d"," ","o","u","t">>]
RefusedError ==
    [ok |-> FALSE, items |-> <<>>, error |-> <<"r","e","f","u","s","e","d"," ",DENG>>]
ResponsePool ==
    { HttpError, Response(<<>>), Response(<<wLow, wExact>>), Response(<<wNoTitle, wSix>>),
      Response(<<wLow>>), Response(<<wXy, wExact>>) }

\* ------------------------------------------------------------------------
\* The cache file and load_crossref_cache / save_crossref_cache
\* ------------------------------------------------------------------------

EmptyDict == <<>>

\* dict.get(key, default)
Get(d, key, default) == IF key \in DOMAIN d THEN d[key] ELSE default

\* d[key] = value
Put(d, key, value) == [k \in DOMAIN d \cup {key} |-> IF k = key THEN value ELSE d[k]]

\* A cache file left by an earlier version or edited by hand: entries whose
\* affiliation lists are shorter and longer than their author lists, the
\* second one without a status.
StaleCache ==
    Put(Put(EmptyDict,
        <<"a","b"," ","c","d">>,
        [status |-> "ok", score |-> Frac(9, 10), doi |-> <<"1","0",".","9">>,
         journal |-> <<>>, year |-> NoYear, first_author |-> <<"A">>,
         first_affiliations |-> <<>>,
         authors |-> << <<"A">>, <<"B">> >>,
         authors_affiliations |-> << << <<"U">> >> >>]),
        <<"x","y">>,
        [score |-> Frac(1, 1), doi |-> <<>>,
         journal |-> <<"K">>, year |-> 2019, first_author |-> <<"Y"," ","L","v">>,
         first_affiliations |-> <<>>,
         authors |-> << <<"Y"," ","L","v">> >>,
         authors_affiliations |-> << <<>>, << <<"V">> >>, <<>> >>])

\* The file at CROSSREF_CACHE_PATH, by what reading it does:
\*   "missing"      there is no file;
\*   "empty"        a file without content, as open(..., "w") leaves it;
\*   "corrupt"      text on which json.loads raises JSONDecodeError, or a JSON
\*                  value that is not a mapping;
\*   "undecodable"  bytes that are not UTF-8: read_text raises UnicodeDecodeError;
\*   "too_deep"     text nested so deep (a long run of "[") that json.loads
\*                  raises RecursionError;
\*   "huge_int"     JSON with an integer of more digits than int() accepts:
\*                  json.loads raises ValueError;
\*   "directory"    a directory at the path: read_text raises IsADirectoryError;
\*   "mapping"      a JSON mapping, data.
\* The last file of the pool is {"xy": {"status": "unqueried"}}: an entry
\* whose status no request stores.
CacheFilePool ==
    { [kind |-> "missing", data |-> EmptyDict],
      [kind |-> "corrupt", data |-> EmptyDict],
      [kind |-> "undecodable", data |-> EmptyDict],
      [kind |-> "too_deep", data |-> EmptyDict],
      [kind |-> "mapping", data |-> StaleCache],
      [kind |-> "mapping", data |-> Put(EmptyDict, <<"x","y">>, [status |-> "unqueried"])] }

\* A load that leaves out the entries of failed requests.
load_crossref_cache_retry_errors(file) ==
    IF file.kind = "mapping"
    THEN [k \in {t \in DOMAIN file.data : Get(file.data[t], "status", "") # "error"}
            |-> file.data[k]]
    ELSE EmptyDict

\* The handler of line 309 catches json.JSONDecodeError only: the exceptions
\* of the other kinds leave load_crossref_cache.
load_crossref_cache_raises(file) ==
    file.kind \in {"undecodable", "too_deep", "huge_int", "directory"}

load_crossref_cache(file) == IF file.kind = "mapping" THEN file.data ELSE EmptyDict

\* A save that keeps the accepted matches only.
save_crossref_cache_ok_only(cache) ==
    [kind |-> "mapping",
     data |-> [k \in {t \in DOMAIN cache : Get(cache[t], "status", "") = "ok"} |-> cache[k]]]

\* json.dumps of the mapping, written wholesale; the values (strings, ints,
\* floats, None, lists) are read back by json.loads as they were written.
save_crossref_cache(cache) == [kind |-> "mapping", data |-> cache]

\* Every entry of mapping a is in mapping b with the same value: the text of
\* a, the sum of the texts of its entries, is then no longer than the text
\* of b.
SubMapping(a, b) == \A k \in DOMAIN a : k \in DOMAIN b /\ b[k] = a[k]

\* The text json.dumps(cache, ensure_ascii=False) holds a character that
\* takes more than one byte in UTF-8, in a key or in a string of an entry.
MultiByteText(cache) ==
    \E k \in DOMAIN cache :
        \/ Range(k) \cap MultiByte # {}
        \/ \E f \in {"error", "doi", "journal", "first_author"} :
               Range(Get(cache[k], f, <<>>)) \cap MultiByte # {}
        \/ \E f \in {"first_affiliations", "authors"} :
               \E i \in DOMAIN Get(cache[k], f, <<>>) :
                   Range(cache[k][f][i]) \cap MultiByte # {}
        \/ \E i \in DOMAIN Get(cache[k], "authors_affiliations", <<>>) :
               \E j \in DOMAIN cache[k].authors_affiliations[i] :
                   Range(cache[k].authors_affiliations[i][j]) \cap MultiByte # {}

\* ------------------------------------------------------------------------
\* query_crossref
\* ------------------------------------------------------------------------

\* A loop that takes a candidate whose score equals the best so far (score >= best_score).
RECURSIVE BestMatch_latest(_, _, _)
BestMatch_latest(items, n, norm_title) ==
    IF n = 0 THEN [best_item |-> 0, best_score |-> Frac(0, 1)]
    ELSE Only({ IF items[n].title = <<>> THEN prev
                ELSE Only({ IF ~ ScoreLT(score, prev.best_score)
                            THEN [best_item |-> n, best_score |-> score]
                            ELSE prev
                            : score \in {sequence_score(normalize_title(items[n].title[1]),
                                                        norm_title)} })
                : prev \in {BestMatch_latest(items, n - 1, norm_title)} })

\* (best_item, best_score) after the loop over items[1..n]; best_item is an
\* index into items, 0 for None.
RECURSIVE BestMatch(_, _, _)
BestMatch(items, n, norm_title) ==
    IF n = 0 THEN [best_item |-> 0, best_score |-> Frac(0, 1)]
    ELSE Only({ IF items[n].title = <<>> THEN prev
                ELSE Only({ IF ScoreLT(prev.best_score, score)
                            THEN [best_item |-> n, best_score |-> score]
                            ELSE prev
                            : score \in {sequence_score(normalize_title(items[n].title[1]),
                                                        norm_title)} })
                : prev \in {BestMatch(items, n - 1, norm_title)} })

\* The accepted score threshold 0.6.
Threshold == Frac(6, 10)

RECURSIVE NonEmpty(_)
NonEmpty(ss) ==
    IF ss = <<>> THEN <<>>
    ELSE IF Head(ss) # <<>> THEN <<Head(ss)>> \o NonEmpty(Tail(ss))
    ELSE NonEmpty(Tail(ss))

\* The name of one author: given and family when present, else the literal
\* name, else the sentinel.
AuthorName(author) ==
    LET name_parts == NonEmpty(<<author.given, author.family>>)
        name == IF name_parts # <<>>
                THEN normalize_whitespace(Join(<<" ">>, name_parts))
                ELSE normalize_whitespace(author.name)
    IN  IF name = <<>> THEN MISSING ELSE name

AuthorAffs(author) ==
    LET named == NonEmpty(author.affiliation)
    IN  [i \in DOMAIN named |-> normalize_whitespace(named[i])]

\* A test that rejects the threshold itself (best_score <= 0.6).
Rejected_at_threshold(best) == best.best_item = 0 \/ ~ ScoreLT(Threshold, best.best_score)

\* Line 358: no titled candidate, or the best score under the threshold.
Rejected(best) == best.best_item = 0 \/ ScoreLT(best.best_score, Threshold)

\* The result built from the accepted work (lines 365-406).
OkEntry(best_item, best_score) ==
    LET authors == best_item.author
        authors_full == [i \in DOMAIN authors |-> AuthorName(authors[i])]
        authors_affiliations == [i \in DOMAIN authors |-> AuthorAffs(authors[i])]
    IN  [status |-> "ok",
         score |-> best_score,
         doi |-> best_item.DOI,
         journal |-> IF best_item.container_title = <<>> THEN <<>>
                     ELSE best_item.container_title[1],
         year |-> best_item.issued,
         first_author |-> IF authors = <<>> \/ authors_full[1] = MISSING
                          THEN <<>> ELSE authors_full[1],
         first_affiliations |-> IF authors = <<>> THEN <<>>
                                ELSE authors_affiliations[1],
         authors |-> authors_full,
         authors_affiliations |-> authors_affiliations]

\* An entry that records a failed request as a plain miss.
CrossrefEntry_error_as_no_match(resp, norm_title) ==
    IF ~ resp.ok THEN [status |-> "no_match", score |-> Frac(0, 1)]
    ELSE Only({ IF Rejected(best)
                THEN [status |-> "no_match", score |-> best.best_score]
                ELSE Only({ OkEntry(best_item, best.best_score)
                            : best_item \in {resp.items[best.best_item]} })
                : best \in {BestMatch(resp.items, Len(resp.items), norm_title)} })

\* The entry stored for a response (lines 334-408).
CrossrefEntry(resp, norm_title) ==
    IF ~ resp.ok THEN [status |-> "error", error |-> resp.error]
    ELSE Only({ IF Rejected(best)
                THEN [status |-> "no_match", score |-> best.best_score]
                ELSE Only({ OkEntry(best_item, best.best_score)
                            : best_item \in {resp.items[best.best_item]} })
                : best \in {BestMatch(resp.items, Len(resp.items), norm_title)} })

\* A lookup keyed by the title as written.
CacheHit_raw(title, cache) == title \in DOMAIN cache

\* The cache lookup at the head of query_crossref: the entry stored under the
\* normalized title, or no entry.
CacheHit(title, cache) == normalize_title(title) \in DOMAIN cache
CacheLookup(title, cache) == cache[normalize_title(title)]

\* A query_crossref that returns the entry of a request without keeping it.
query_crossref_no_store(title, resp, cache) ==
    IF CacheHit(title, cache)
    THEN [info |-> CacheLookup(title, cache), cache |-> cache, sent |-> FALSE]
    ELSE [info |-> CrossrefEntry(resp, normalize_title(title)), cache |-> cache, sent |-> TRUE]

\* A query_crossref that asks the API again for a title the cache holds and
\* stores what comes back.
query_crossref_refresh(title, resp, cache) ==
    Only({ Only({ [info |-> entry, cache |-> Put(cache, norm_title, entry),
                   sent |-> ~ CacheHit(title, cache)]
                  : entry \in {CrossrefEntry(resp, norm_title)} })
           : norm_title \in {normalize_title(title)} })

\* query_crossref(title, session, cache) given what a request would return:
\* the entry returned, the cache afterwards, and whether a request was sent.
query_crossref(title, resp, cache) ==
    IF CacheHit(title, cache)
    THEN [info |-> CacheLookup(title, cache), cache |-> cache, sent |-> FALSE]
    ELSE Only({ Only({ [info |-> entry, cache |-> Put(cache, norm_title, entry),
                        sent |-> TRUE]
                       : entry \in {CrossrefEntry(resp, norm_title)} })
                : norm_title \in {normalize_title(title)} })

\* ------------------------------------------------------------------------
\* enrich_records: one record
\* ------------------------------------------------------------------------

\* info.get(key) or []
GetList(info, key) == Get(info, key, <<>>)

\* crossref_affiliations[:n], then padded with [] up to n.
AlignTo(affiliations, n) ==
    [i \in 1..n |-> IF i <= Len(affiliations) THEN affiliations[i] ELSE <<>>]

\* Affiliations taken as the entry gives them.
CrossrefAffiliations_as_given(info) ==
    IF GetList(info, "authors_affiliations") # <<>>
    THEN GetList(info, "authors_affiliations")
    ELSE [i \in DOMAIN GetList(info, "authors") |-> <<>>]

CrossrefAffiliations(info) ==
    LET crossref_authors == GetList(info, "authors")
        given == GetList(info, "authors_affiliations")
        crossref_affiliations ==
            IF given # <<>> THEN given ELSE [i \in DOMAIN crossref_authors |-> <<>>]
    IN  IF crossref_affiliations # <<>> /\ Len(crossref_affiliations) # Len(crossref_authors)
        THEN AlignTo(crossref_affiliations, Len(crossref_authors))
        ELSE crossref_affiliations

\* A merge that tags every scraped list alike, truncated or not.
MergeAuthors_one_scholar_tag(record, crossref_authors, crossref_affiliations) ==
    IF crossref_authors # <<>>
    THEN [final_authors |-> crossref_authors,
          final_affiliations |-> crossref_affiliations,
          author_source |-> "crossref"]
    ELSE IF record.authors_list # <<>>
    THEN [final_authors |-> record.authors_list,
          final_affiliations |-> [i \in DOMAIN record.authors_list |-> <<>>],
          author_source |-> "scholar"]
    ELSE [final_authors |-> <<>>, final_affiliations |-> <<>>, author_source |-> "unknown"]

\* A merge that prefers the scraped list.
MergeAuthors_scholar_first(record, crossref_authors, crossref_affiliations) ==
    IF record.authors_list # <<>>
    THEN [final_authors |-> record.authors_list,
          final_affiliations |-> [i \in DOMAIN record.authors_list |-> <<>>],
          author_source |-> IF record.authors_truncated THEN "scholar_truncated" ELSE "scholar"]
    ELSE IF crossref_authors # <<>>
    THEN [final_authors |-> crossref_authors,
          final_affiliations |-> crossref_affiliations,
          author_source |-> "crossref"]
    ELSE [final_authors |-> <<>>, final_affiliations |-> <<>>, author_source |-> "unknown"]

\* The merge policy of lines 436-453: (final_authors, final_affiliations, author_source).
MergeAuthors(record, crossref_authors, crossref_affiliations) ==
    IF crossref_authors # <<>>
    THEN [final_authors |-> crossref_authors,
          final_affiliations |-> crossref_affiliations,
          author_source |-> "crossref"]
    ELSE IF record.authors_list # <<>>
    THEN [final_authors |-> record.authors_list,
          final_affiliations |-> [i \in DOMAIN record.authors_list |-> <<>>],
          author_source |-> IF record.authors_truncated THEN "scholar_truncated" ELSE "scholar"]
    ELSE [final_authors |-> <<>>, final_affiliations |-> <<>>, author_source |-> "unknown"]

\* The fields with the default of the dataclass as the status of an entry
\* that has none.
EnrichedFields_unqueried(record, info, crossref_affiliations, merged) ==
    LET crossref_authors == GetList(info, "authors")
        info_year == Get(info, "year", NoYear)
    IN  [crossref_status |-> Get(info, "status", "unqueried"),
         crossref_score |-> Get(info, "score", NoScore),
         doi |-> Get(info, "doi", <<>>),
         journal |-> Get(info, "journal", <<>>),
         crossref_year |-> IF info_year = NoYear THEN record.year ELSE info_year,
         authors_crossref |-> crossref_authors,
         authors_crossref_affiliations |-> crossref_affiliations,
         final_authors |-> merged.final_authors,
         final_author_affiliations |-> merged.final_affiliations,
         author_source |-> merged.author_source,
         first_author |-> IF merged.final_authors # <<>>
                          THEN merged.final_authors[1] ELSE <<>>,
         first_author_affiliations |->
             IF merged.final_authors # <<>> /\ merged.final_affiliations # <<>>
             THEN merged.final_affiliations[1] ELSE <<>>]
        @@ record

\* The fields of the EnrichedRecord, given the aligned affiliations and the
\* outcome of the merge.
EnrichedFields(record, info, crossref_affiliations, merged) ==
    LET crossref_authors == GetList(info, "authors")
        info_year == Get(info, "year", NoYear)
    IN  [crossref_status |-> Get(info, "status", "unknown"),
         crossref_score |-> Get(info, "score", NoScore),
         doi |-> Get(info, "doi", <<>>),
         journal |-> Get(info, "journal", <<>>),
         crossref_year |-> IF info_year = NoYear THEN record.year ELSE info_year,
         authors_crossref |-> crossref_authors,
         authors_crossref_affiliations |-> crossref_affiliations,
         final_authors |-> merged.final_authors,
         final_author_affiliations |-> merged.final_affiliations,
         author_source |-> merged.author_source,
         first_author |-> IF merged.final_authors # <<>>
                          THEN merged.final_authors[1] ELSE <<>>,
         first_author_affiliations |->
             IF merged.final_authors # <<>> /\ merged.final_affiliations # <<>>
             THEN merged.final_affiliations[1] ELSE <<>>]
        @@ record

\* The EnrichedRecord built from a record and the entry query_crossref returned.
EnrichedRecord(record, info) ==
    Only({ Only({ EnrichedFields(record, info, crossref_affiliations, merged)
                  : merged \in {MergeAuthors(record, GetList(info, "authors"),
                                             crossref_affiliations)} })
           : crossref_affiliations \in {CrossrefAffiliations(info)} })

\* ------------------------------------------------------------------------
\* filter_self_citations
\* ------------------------------------------------------------------------

\* A filter that looks at the scraped names alone.
FilterNames_scraped(record) == record.authors_list

\* The names the filter looks at: record.final_authors or record.authors_list.
FilterNames(record) ==
    IF record.final_authors # <<>> THEN record.final_authors ELSE record.authors_list

NormalizedNames(names) ==
    {normalize_author_name(names[i]) : i \in {k \in DOMAIN names : names[k] # <<>>}}

IsSelfCitation(record) == NormalizedNames(FilterNames(record)) \cap ORIGINAL_AUTHORS # {}

RECURSIVE filter_self_citations(_)
filter_self_citations(records) ==
    IF records = <<>> THEN <<>>
    ELSE IF IsSelfCitation(Head(records)) THEN filter_self_citations(Tail(records))
    ELSE <<Head(records)>> \o filter_self_citations(Tail(records))

\* ------------------------------------------------------------------------
\* record_to_output_row
\* ------------------------------------------------------------------------

Note(key, text, score) == [key |-> key, text |-> text, score |-> score]

\* An author column written from the scraped list.
authors_str_scraped(record) ==
    IF record.authors_list # <<>>
    THEN Join(<<";", " ">>, record.authors_list) ELSE MISSING

\* Line 503: the author column.
authors_str(record) ==
    IF record.final_authors # <<>>
    THEN Join(<<";", " ">>, record.final_authors) ELSE MISSING

\* "name (aff1; aff2)", with the sentinel for a missing name or no affiliation.
format_author_entry(name, affiliations) ==
    Only({ (IF name # <<>> THEN name ELSE MISSING) \o <<" ", "(">>
             \o (IF clean_affs # <<>> THEN Join(<<";", " ">>, clean_affs) ELSE MISSING)
             \o <<")">>
           : clean_affs \in {sorted({normalize_whitespace(aff) : aff \in Range(NonEmpty(affiliations))})} })

\* The row of the CSV; a note carries the score itself where the source
\* formats it to two decimals.
record_to_output_row(index, record) ==
    LET zipped == 1..(IF Len(record.final_authors) < Len(record.final_author_affiliations)
                      THEN Len(record.final_authors)
                      ELSE Len(record.final_author_affiliations))
        affs_clean == [i \in zipped |->
                          [k \in DOMAIN NonEmpty(record.final_author_affiliations[i]) |->
                              normalize_whitespace(NonEmpty(record.final_author_affiliations[i])[k])]]
        author_entries == [i \in zipped |->
                              format_author_entry(record.final_authors[i], affs_clean[i])]
        aggregated_affiliations == UNION {Range(affs_clean[i]) : i \in zipped}
        source_link == IF record.url = <<>> /\ record.cluster_id # <<>>
                       THEN <<"https://scholar.google.com/scholar?cluster=">> \o record.cluster_id
                       ELSE record.url
        publish_year == IF record.crossref_year # NoYear
                        THEN record.crossref_year ELSE record.year
        notes ==
            (IF record.crossref_status # "ok"
             THEN <<Note("crossref_status", record.crossref_status, NoScore)>> ELSE <<>>)
            \o (IF record.crossref_score # NoScore
                THEN <<Note("score", "", record.crossref_score)>> ELSE <<>>)
            \o (IF record.final_authors = <<>>
                THEN <<Note("missing_authors", "", NoScore)>> ELSE <<>>)
            \o (IF record.author_source # "crossref"
                THEN <<Note("author_source", record.author_source, NoScore)>> ELSE <<>>)
            \o (IF record.authors_truncated /\ record.author_source # "crossref"
                THEN <<Note("scholar_authors_may_be_truncated", "", NoScore)>> ELSE <<>>)
    IN  [index |-> index,
         title |-> record.title,
         authors |-> authors_str(record),
         author_affiliations |-> IF author_entries # <<>>
                                 THEN Join(<<" ", "|", " ">>, author_entries) ELSE MISSING,
         affiliations |-> IF aggregated_affiliations # {}
                          THEN Join(<<";", " ">>, sorted(aggregated_affiliations)) ELSE MISSING,
         year |-> publish_year,
         link |-> IF source_link # <<>> THEN source_link ELSE MISSING,
         DOI |-> record.doi,
         journal |-> record.journal,
         notes |-> notes]

\* build_markdown_summary over the rows of a DataFrame that has the affiliation
\* column: the five counts of the summary (the Top 10 table is left out).
\* The affiliation cells that are not the sentinel are split at "; ", and the
\* parts stripped, the empty ones dropped.
build_markdown_summary(rows, n_total, n_filtered) ==
    [written |-> TRUE,
     with_counts |-> TRUE,
     total_records |-> n_total,
     filtered_records |-> n_filtered,
     rows |-> Len(rows),
     unique_affiliations |->
         Cardinality(UNION { {Strip(part) : part \in Range(SplitAt(rows[i].affiliations,
                                                                  <<";", " ">>, <<>>))}
                             : i \in {j \in DOMAIN rows : rows[j].affiliations # MISSING} }
                     \ {<<>>}),
     missing_affiliations |-> Cardinality({i \in DOMAIN rows : rows[i].affiliations = MISSING})]

\* The files at CSV_OUTPUT_PATH and MARKDOWN_OUTPUT_PATH (data/citations.csv and
\* reports/citations_summary.md for both scripts) before the first run:
\* written is whether a run has written the file since.
OldReports ==
    [csv |-> [written |-> FALSE, rows |-> <<>>],
     markdown |-> [written |-> FALSE, with_counts |-> FALSE, total_records |-> 0,
                   filtered_records |-> 0, rows |-> 0, unique_affiliations |-> 0,
                   missing_affiliations |-> 0]]

\* ------------------------------------------------------------------------
\* main: the deduplication pass
\* ------------------------------------------------------------------------

\* record_key with the normalized title in the key of a cluster.
record_key_cluster_and_title(record) ==
    IF record.cluster_id # <<>>
    THEN <<"c","l","u","s","t","e","r",":">> \o record.cluster_id
             \o <<":">> \o normalize_title(record.title)
    ELSE <<"t","i","t","l","e",":">> \o normalize_title(record.title)

\* record_key keyed by the normalized title alone.
record_key_title_only(record) ==
    <<"t","i","t","l","e",":">> \o normalize_title(record.title)

record_key(record) ==
    IF record.cluster_id # <<>>
    THEN <<"c","l","u","s","t","e","r",":">> \o record.cluster_id
    ELSE <<"t","i","t","l","e",":">> \o normalize_title(record.title)

\* The loop body of lines 627-632 over records[1..n], from (combined, seen).
RECURSIVE DedupInto(_, _, _)
DedupInto(acc, records, n) ==
    IF n = 0 THEN acc
    ELSE LET prev == DedupInto(acc, records, n - 1)
             key == record_key(records[n])
         IN  IF key \in prev.seen_keys THEN prev
             ELSE [combined_records |-> Append(prev.combined_records, records[n]),
                   seen_keys |-> prev.seen_keys \cup {key}]

\* A pass that takes the fallback scope first, then the year scopes from the
\* latest to the earliest.
Deduplicate_fallback_first(scraped) ==
    Only({ DedupInto([combined_records |-> <<>>, seen_keys |-> {}], all, Len(all))
           : all \in {Flatten([s \in DOMAIN scraped |-> scraped[Len(scraped) + 1 - s]])} })

\* The year scopes in order, then the fallback scope: scraped is indexed like
\* scrape_targets.
Deduplicate(scraped) ==
    DedupInto([combined_records |-> <<>>, seen_keys |-> {}],
              Flatten(scraped), Len(Flatten(scraped)))

\* ------------------------------------------------------------------------
\* State
\* ------------------------------------------------------------------------

VARIABLES
    pc,               \* where the run is: "scrape", "dedup", "persist_raw", "enrich_load",
                      \* "enrich", "filter", "report", "done"; "aborted" and "load_failed"
                      \* after an exception that ended it
    run,              \* number of the current run
    scope,            \* scrape_years: index into scrape_targets of the scope being fetched
    start,            \* scrape_years: start offset of the next page
    total_expected,   \* scrape_years: total read on the first page, NoYear for None
    collected,        \* scrape_years: records of the scope so far
    scraped_by_year,  \* scrape_years: results, one list per finished scope
    combined_records, \* main: the records after deduplication
    seen_keys,        \* main: the keys seen
    rawFile,          \* the file at RAW_SCHOLAR_JSON, which openalex_citations.py reads
                      \* and writes as output_json
    cacheFile,        \* the file at CROSSREF_CACHE_PATH
    cache,            \* enrich_records: the cache in memory
    pos,              \* enrich_records: number of records processed
    enriched,         \* enrich_records: the enriched records
    sent,             \* the requests sent to the API in this run, in order: the index of
                      \* the record, the title queried and what came back
    filtered_records, \* main: the records after the self-citation filter
    reports           \* the files at CSV_OUTPUT_PATH and MARKDOWN_OUTPUT_PATH, which both
                      \* scripts write: the rows of the CSV, the counts of the summary

\* openalex_citations.py, one run of the entry point
VARIABLES
    oa_pc,            \* where the run is: "start", "fetch_pages", "write_raw", "filter",
                      \* "report", "exited"; "idle" when the script is not run
    force_refresh,    \* args.force_refresh
    oa_server,        \* the pages of citing works the API holds for the target work
    cursor,           \* fetch_citing_works: the cursor of the next request
    citing_records,   \* main: the JSON value of citing_records
    oa_requests,      \* the requests sent to the API, in order
    oa_filtered,      \* main: filtered_records
    stderr,           \* what the process wrote to standard error
    exit_code,        \* the exit code of the process, -1 while it runs
    generator         \* generate_openalex_report.py run on the files of the process:
                      \* whether it ran, how it ended, and its year_distribution

\* enrich_records invoked by several processes over one cache file
VARIABLES
    procs             \* per invocation: its position, its records, its cache in memory

\* The state of a process running collect_citations.py.
collectVars == <<pc, run, scope, start, total_expected, collected, scraped_by_year,
                 combined_records, seen_keys, cache, pos, enriched, sent, filtered_records>>

\* The files on disk.
fileVars == <<rawFile, cacheFile, reports>>

\* The state of a process running openalex_citations.py, and of the generator.
openalexVars == <<oa_pc, force_refresh, oa_server, cursor, citing_records,
                  oa_requests, oa_filtered, stderr, exit_code, generator>>

vars == <<collectVars, fileVars, openalexVars, procs>>

\* openalex_citations.py is not run.
OpenAlexIdle ==
    /\ oa_pc = "idle"
    /\ force_refresh = FALSE
    /\ oa_server = <<>>
    /\ cursor = 0
    /\ citing_records = <<>>
    /\ oa_requests = <<>>
    /\ oa_filtered = <<>>
    /\ stderr = <<>>
    /\ exit_code = -1
    /\ generator = <<>>

\* What a run of collect_citations.py leaves alone: the state of the other
\* processes. The files are in the frame of each action.
notCollect == <<openalexVars, procs>>

scrapeVars == <<scope, start, total_expected, collected, scraped_by_year>>
dedupVars == <<combined_records, seen_keys>>
enrichVars == <<cache, pos, enriched, sent>>

Init ==
    /\ pc = "scrape"
    /\ run = 1
    /\ scope = 1
    /\ start = 0
    /\ total_expected = NoYear
    /\ collected = <<>>
    /\ scraped_by_year = <<>>
    /\ combined_records = <<>>
    /\ seen_keys = {}
    /\ rawFile \in RawFilePool
    /\ cacheFile \in CacheFilePool
    \* main writes the raw records before enrich_records writes the cache:
    \* where no run has left raw records, none has left a cache file.
    /\ rawFile.kind = "missing" => cacheFile.kind = "missing"
    /\ cache = EmptyDict
    /\ pos = 0
    /\ enriched = <<>>
    /\ sent = <<>>
    /\ filtered_records = <<>>
    /\ reports = OldReports
    /\ OpenAlexIdle
    /\ procs = <<>>

\* ------------------------------------------------------------------------
\* scrape_years
\* ------------------------------------------------------------------------

\* results[year] = collected, and on to the next scope or out of scrape_years.
FinishScope(records) ==
    /\ scraped_by_year' = Append(scraped_by_year, records)
    /\ collected' = <<>>
    /\ start' = 0
    /\ total_expected' = NoYear
    /\ scope' = scope + 1
    /\ pc' = IF scope = Len(scrape_targets) THEN "dedup" ELSE "scrape"

\* A loop that goes on when the next offset equals the total (start > total_expected).
FetchPage_past_total ==
    /\ pc = "scrape"
    /\ \E handles \in PagePool \cup {<<>>},
          summary \in (IF start = 0 THEN TotalPool ELSE {NoYear}) :
          /\ handles # <<>> => start \div RESULTS_PER_PAGE < MaxPages
          /\ LET page == fetch_page_entries(handles, summary, start)
                 expected == IF total_expected = NoYear /\ page.total_results # 0
                             THEN page.total_results ELSE total_expected
             IN  IF page.records = <<>>
                 THEN FinishScope(collected)
                 ELSE IF expected # NoYear /\ start + RESULTS_PER_PAGE > expected
                 THEN FinishScope(collected \o page.records)
                 ELSE /\ collected' = collected \o page.records
                      /\ start' = start + RESULTS_PER_PAGE
                      /\ total_expected' = expected
                      /\ UNCHANGED <<scope, scraped_by_year, pc>>
    /\ UNCHANGED <<run, dedupVars, enrichVars, fileVars, filtered_records>>
    /\ UNCHANGED notCollect

\* One iteration of the while loop: the page at offset start is fetched and
\* comes back with handles and, on a first page, the summary total.
FetchPage ==
    /\ pc = "scrape"
    /\ \E handles \in PagePool \cup {<<>>},
          summary \in (IF start = 0 THEN TotalPool ELSE {NoYear}) :
          /\ handles # <<>> => start \div RESULTS_PER_PAGE < MaxPages
          /\ LET page == fetch_page_entries(handles, summary, start)
                 expected == IF total_expected = NoYear /\ page.total_results # 0
                             THEN page.total_results ELSE total_expected
             IN  IF page.records = <<>>
                 THEN FinishScope(collected)
                 ELSE IF expected # NoYear /\ start + RESULTS_PER_PAGE >= expected
                 THEN FinishScope(collected \o page.records)
                 ELSE /\ collected' = collected \o page.records
                      /\ start' = start + RESULTS_PER_PAGE
                      /\ total_expected' = expected
                      /\ UNCHANGED <<scope, scraped_by_year, pc>>
    /\ UNCHANGED <<run, dedupVars, enrichVars, fileVars, filtered_records>>
    /\ UNCHANGED notCollect

\* page.goto or query_selector_all throws: nothing in fetch_page_entries,
\* scrape_years or main catches it, so the run ends with the exception and
\* the records held in memory are gone; scope and start stay where the failure
\* happened.
FetchPageRaises ==
    /\ pc = "scrape"
    /\ pc' = "aborted"
    /\ collected' = <<>>
    /\ scraped_by_year' = <<>>
    /\ UNCHANGED <<run, scope, start, total_expected, dedupVars, enrichVars, fileVars,
                   filtered_records>>
    /\ UNCHANGED notCollect

\* ------------------------------------------------------------------------
\* main
\* ------------------------------------------------------------------------

\* A main that goes on with what it has after a failed fetch.
Dedup_after_failure ==
    /\ pc \in {"dedup", "aborted"}
    /\ LET d == Deduplicate(scraped_by_year)
       IN  /\ combined_records' = d.combined_records
           /\ seen_keys' = d.seen_keys
    /\ pc' = "persist_raw"
    /\ UNCHANGED <<run, scrapeVars, enrichVars, fileVars, filtered_records>>
    /\ UNCHANGED notCollect

\* Lines 616-641.
Dedup ==
    /\ pc = "dedup"
    /\ LET d == Deduplicate(scraped_by_year)
       IN  /\ combined_records' = d.combined_records
           /\ seen_keys' = d.seen_keys
    /\ pc' = "persist_raw"
    /\ UNCHANGED <<run, scrapeVars, enrichVars, fileVars, filtered_records>>
    /\ UNCHANGED notCollect

\* A write of everything fetched, duplicates included.
PersistRaw_fetched ==
    /\ pc = "persist_raw"
    /\ rawFile' = [kind |-> "json", data |-> JsonList(Flatten(scraped_by_year))]
    /\ scraped_by_year' = <<>>
    /\ pc' = "enrich_load"
    /\ UNCHANGED <<run, scope, start, total_expected, collected, dedupVars, enrichVars,
                   cacheFile, reports, filtered_records>>
    /\ UNCHANGED notCollect

\* A write that appends to what the file holds.
PersistRaw_append ==
    /\ pc = "persist_raw"
    /\ rawFile' = [kind |-> "json", data |-> JsonList(rawFile.data.items \o combined_records)]
    /\ scraped_by_year' = <<>>
    /\ pc' = "enrich_load"
    /\ UNCHANGED <<run, scope, start, total_expected, collected, dedupVars, enrichVars,
                   cacheFile, reports, filtered_records>>
    /\ UNCHANGED notCollect

\* Lines 643-646: write_text replaces the content of the file.
\* scraped_by_year is not read after the deduplication pass and is dropped here.
PersistRaw ==
    /\ pc = "persist_raw"
    /\ rawFile' = [kind |-> "json", data |-> JsonList(combined_records)]
    /\ scraped_by_year' = <<>>
    /\ pc' = "enrich_load"
    /\ UNCHANGED <<run, scope, start, total_expected, collected, dedupVars, enrichVars,
                   cacheFile, reports, filtered_records>>
    /\ UNCHANGED notCollect

\* enrich_records, line 413, on a cache file that cannot be decoded: the
\* exception leaves load_crossref_cache, enrich_records and main.
EnrichLoadRaises ==
    /\ pc = "enrich_load"
    /\ load_crossref_cache_raises(cacheFile)
    /\ pc' = "load_failed"
    /\ UNCHANGED <<run, scrapeVars, dedupVars, enrichVars, fileVars, filtered_records>>
    /\ UNCHANGED notCollect

\* enrich_records, lines 412-414.
EnrichLoad ==
    /\ pc = "enrich_load"
    /\ ~ load_crossref_cache_raises(cacheFile)
    /\ cache' = load_crossref_cache(cacheFile)
    /\ enriched' = <<>>
    /\ pos' = 0
    /\ sent' = <<>>
    /\ pc' = "enrich"
    /\ UNCHANGED <<run, scrapeVars, dedupVars, fileVars, filtered_records>>
    /\ UNCHANGED notCollect

\* enrich_records, one iteration of the loop, for a title the cache holds.
EnrichFromCache ==
    /\ pc = "enrich"
    /\ pos < Len(combined_records)
    /\ LET record == combined_records[pos + 1]
       IN  /\ CacheHit(record.title, cache)
           /\ \E q \in {query_crossref(record.title, HttpError, cache)} :
                  /\ enriched' = Append(enriched, EnrichedRecord(record, q.info))
                  /\ cache' = q.cache
    /\ pos' = pos + 1
    /\ UNCHANGED <<pc, run, scrapeVars, dedupVars, fileVars, sent, filtered_records>>
    /\ UNCHANGED notCollect

\* enrich_records, one iteration of the loop, for a title the cache does not
\* hold: a request is sent and comes back with resp.
EnrichFromApi ==
    /\ pc = "enrich"
    /\ pos < Len(combined_records)
    /\ LET record == combined_records[pos + 1]
       IN  /\ ~ CacheHit(record.title, cache)
           /\ \E resp \in ResponsePool :
                 \E q \in {query_crossref(record.title, resp, cache)} :
                     /\ enriched' = Append(enriched, EnrichedRecord(record, q.info))
                     /\ cache' = q.cache
                     /\ sent' = IF q.sent
                                THEN Append(sent, [index |-> pos + 1, title |-> record.title,
                                                   resp |-> resp])
                                ELSE sent
    /\ pos' = pos + 1
    /\ UNCHANGED <<pc, run, scrapeVars, dedupVars, fileVars, filtered_records>>
    /\ UNCHANGED notCollect

\* enrich_records, line 468.
EnrichSave ==
    /\ pc = "enrich"
    /\ pos = Len(combined_records)
    /\ cacheFile' = save_crossref_cache(cache)
    /\ pc' = "filter"
    /\ UNCHANGED <<run, scrapeVars, dedupVars, enrichVars, rawFile, reports, filtered_records>>
    /\ UNCHANGED notCollect

\* Line 649.
Filter ==
    /\ pc = "filter"
    /\ filtered_records' = filter_self_citations(enriched)
    /\ pc' = "report"
    /\ UNCHANGED <<run, scrapeVars, dedupVars, enrichVars, fileVars>>
    /\ UNCHANGED notCollect

\* Lines 651-664 over at least one record: the CSV and the summary are written.
Report ==
    /\ pc = "report"
    /\ filtered_records # <<>>
    /\ \E output_rows \in {[i \in DOMAIN filtered_records |->
                               record_to_output_row(i, filtered_records[i])]} :
           reports' = [csv |-> [written |-> TRUE, rows |-> output_rows],
                       markdown |-> build_markdown_summary(output_rows, Len(combined_records),
                                                           Len(filtered_records))]
    /\ pc' = "done"
    /\ UNCHANGED <<run, scrapeVars, dedupVars, enrichVars, rawFile, cacheFile, filtered_records>>
    /\ UNCHANGED notCollect

\* Lines 651-659 when no record is left: DataFrame([]) has no columns, to_csv
\* writes a file without rows, and df[affiliation_column] in
\* build_markdown_summary raises KeyError, which nothing catches. The summary
\* file is not written and the run ends with the exception.
ReportRaises ==
    /\ pc = "report"
    /\ filtered_records = <<>>
    /\ reports' = [reports EXCEPT !.csv = [written |-> TRUE, rows |-> <<>>]]
    /\ pc' = "report_failed"
    /\ UNCHANGED <<run, scrapeVars, dedupVars, enrichVars, rawFile, cacheFile, filtered_records>>
    /\ UNCHANGED notCollect

\* The pipeline is run again, after a run that saved the cache, and the fetch
\* returns the same records: the run is followed from the call of
\* enrich_records, in a fresh process.
Rerun ==
    /\ pc \in {"done", "report_failed"}
    /\ run < MaxRuns
    /\ run' = run + 1
    /\ pc' = "enrich_load"
    /\ cache' = EmptyDict
    /\ enriched' = <<>>
    /\ pos' = 0
    /\ sent' = <<>>
    /\ filtered_records' = <<>>
    /\ UNCHANGED <<scrapeVars, dedupVars, rawFile, cacheFile, reports>>
    /\ UNCHANGED notCollect

Next ==
    \/ FetchPage
    \/ FetchPageRaises
    \/ Dedup
    \/ PersistRaw
    \/ EnrichLoadRaises
    \/ EnrichLoad
    \/ EnrichFromCache
    \/ EnrichFromApi
    \/ EnrichSave
    \/ Filter
    \/ Report
    \/ ReportRaises
    \/ Rerun

Spec == Init /\ [][Next]_vars

\* ========================================================================
\* openalex_citations.py
\* ========================================================================

\* collect_citations.py is not run.
CollectIdle ==
    /\ pc = "idle"
    /\ run = 1
    /\ scope = 1
    /\ start = 0
    /\ total_expected = NoYear
    /\ collected = <<>>
    /\ scraped_by_year = <<>>
    /\ combined_records = <<>>
    /\ seen_keys = {}
    /\ cacheFile = [kind |-> "missing", data |-> EmptyDict]
    /\ cache = EmptyDict
    /\ pos = 0
    /\ enriched = <<>>
    /\ sent = <<>>
    /\ filtered_records = <<>>

\* ORIGINAL_AUTHORS of openalex_citations.py: the list of collect_citations.py
\* and "peter ma".
ORIGINAL_AUTHORS_openalex == ORIGINAL_AUTHORS \cup { <<"p","e","t","e","r"," ","m","a">> }

\* A work of OpenAlex: the keys main reads.
Authorship(display_name, institutions) ==
    [display_name |-> display_name, institutions |-> institutions]
OpenAlexWork(id, display_name, authorships, publication_year) ==
    [id |-> id, display_name |-> display_name, authorships |-> authorships,
     publication_year |-> publication_year]

\* "T1" by Jane Roe (MIT), 2020.
oaW1 == OpenAlexWork(<<"W","1">>, <<"T","1">>,
                     <<Authorship(<<"J","a","n","e"," "," ","R","o","e">>, << <<"M","I","T">> >>)>>,
                     2020)
\* "T2" by Peter Ma and an author without a name, 2021.
oaW2 == OpenAlexWork(<<"W","2">>, <<"T","2">>,
                     <<Authorship(<<>>, << <<"E","T","H">> >>),
                       Authorship(<<"P","e","t","e","r",NBSP,"M","a",".">>, <<>>)>>,
                     2021)
\* A work without title, authors or year.
oaW3 == OpenAlexWork(<<"W","3">>, <<>>, <<>>, NoYear)

\* What the API holds for the target work: the result pages of the cites:
\* filter in cursor order; every page but the last comes with a next_cursor.
ServerPool ==
    { << <<oaW1, oaW2>> >>,
      << <<oaW1>>, <<>>, <<oaW2, oaW3>> >>,
      << <<>> >> }

\* The file at output_json before the run: missing; text on which json.loads
\* raises JSONDecodeError ("invalid"); bytes that are not UTF-8; text nested
\* so deep that json.loads raises RecursionError; or a JSON document: an
\* empty list, the works an earlier run of this script wrote, an object, or
\* the records a run of collect_citations.py wrote to the same path (one of
\* them a self-citation, by "P.C. Ma").
RawJsonPool ==
    { [kind |-> "missing", data |-> JsonNull],
      [kind |-> "invalid", data |-> JsonNull],
      [kind |-> "undecodable", data |-> JsonNull],
      [kind |-> "too_deep", data |-> JsonNull],
      [kind |-> "json", data |-> JsonList(<<>>)],
      [kind |-> "json", data |-> JsonList(<<oaW3, oaW2>>)],
      [kind |-> "json", data |-> [type |-> "object", items |-> <<"a">>]],
      [kind |-> "json", data |-> JsonList(<<ScholarRecord(e1, 0), ScholarRecord(e3, 0)>>)] }

\* load_json: None when the file is missing or json.loads raises
\* JSONDecodeError, the one exception line 88 catches. UnicodeDecodeError and
\* IsADirectoryError of read_text, and RecursionError and ValueError of
\* json.loads (a JSON integer of more digits than int() accepts), leave it.
load_json_raises(file) ==
    file.kind \in {"undecodable", "too_deep", "huge_int", "directory"}
load_json(file) == IF file.kind = "json" THEN file.data ELSE JsonNull

\* How a request ends: a response, raise_for_status raising HTTPError, or
\* session.get raising another RequestException.
RequestFailures == {"HTTPError", "RequestException"}

\* extract_authors over the authorships of a record: for each authorship with
\* a name, the normalized name and the normalized names of its institutions
\* that are not empty.
RECURSIVE extract_authors(_)
extract_authors(authorships) ==
    IF authorships = <<>> THEN <<>>
    ELSE Only({ (IF name # <<>>
                 THEN <<[name |-> name,
                         affiliations |->
                             NonEmpty([i \in DOMAIN institutions |->
                                          normalize_whitespace(institutions[i])])]>>
                 ELSE <<>>)
                \o extract_authors(Tail(authorships))
                : name \in {normalize_whitespace(Head(authorships).display_name)},
                  institutions \in {NonEmpty(Head(authorships).institutions)} })

should_exclude_self_citation(authors) ==
    NormalizedNames(authors) \cap ORIGINAL_AUTHORS_openalex # {}

\* The loop of main, lines 276-281; record.get("authorships", []) is empty for
\* a record without the key, such as one collect_citations.py wrote.
RECURSIVE FilterCiting(_)
FilterCiting(records) ==
    IF records = <<>> THEN <<>>
    ELSE IF \E authors \in {extract_authors(Get(Head(records), "authorships", <<>>))} :
                should_exclude_self_citation([i \in DOMAIN authors |-> authors[i].name])
    THEN FilterCiting(Tail(records))
    ELSE <<Head(records)>> \o FilterCiting(Tail(records))

\* A cell that holds a year or the missing-value placeholder.
YearCell(publication_year) ==
    IF publication_year = NoYear THEN [missing |-> TRUE, year |-> NoYear]
    ELSE [missing |-> FALSE, year |-> publication_year]

\* record_to_output_row of openalex_citations.py, every key read with get, for
\* records without doi, ids, primary_location and host_venue: the link is the
\* id, the DOI is empty and the venue is the sentinel. format_author_entry is
\* the one of collect_citations.py and also returns the sorted affiliations.
openalex_output_row(index, record) ==
    Only({ Only({
           [index |-> index,
            title |-> IF Get(record, "display_name", <<>>) # <<>>
                      THEN record.display_name ELSE MISSING,
            authors |-> IF authors # <<>>
                        THEN Join(<<";", " ">>, [i \in DOMAIN authors |-> authors[i].name])
                        ELSE MISSING,
            author_affiliations |->
                IF authors # <<>>
                THEN Join(<<" ", "|", " ">>,
                          [i \in DOMAIN authors |->
                              format_author_entry(authors[i].name, authors[i].affiliations)])
                ELSE MISSING,
            affiliations |-> IF aggregated_affs # {}
                             THEN Join(<<";", " ">>, sorted(aggregated_affs)) ELSE MISSING,
            year |-> YearCell(Get(record, "publication_year", NoYear)),
            link |-> IF Get(record, "id", MISSING) # <<>> THEN Get(record, "id", MISSING)
                     ELSE MISSING,
            DOI |-> <<>>,
            journal |-> MISSING,
            notes |-> "data_source=openalex"]
           : aggregated_affs \in
                 {UNION { {normalize_whitespace(aff) : aff \in Range(NonEmpty(authors[i].affiliations))}
                          : i \in DOMAIN authors } \ {<<>>}} })
         : authors \in {extract_authors(Get(record, "authorships", <<>>))} })

\* build_markdown_summary of openalex_citations.py: for an empty DataFrame the
\* summary has the total and a filtered count of 0 and no other count;
\* otherwise the counts are computed as in collect_citations.py.
openalex_markdown_summary(rows, n_total, n_filtered) ==
    IF rows = <<>>
    THEN [written |-> TRUE, with_counts |-> FALSE, total_records |-> n_total,
          filtered_records |-> 0, rows |-> 0, unique_affiliations |-> 0,
          missing_affiliations |-> 0]
    ELSE build_markdown_summary(rows, n_total, n_filtered)

OpenAlexInit ==
    /\ CollectIdle
    /\ procs = <<>>
    /\ oa_pc = "start"
    /\ force_refresh \in BOOLEAN
    /\ rawFile \in RawJsonPool
    /\ reports = OldReports
    /\ oa_server \in ServerPool
    /\ cursor = 0
    /\ citing_records = JsonNull
    /\ oa_requests = <<>>
    /\ oa_filtered = <<>>
    /\ stderr = <<>>
    /\ exit_code = -1
    /\ generator = [at |-> "not_run", year_distribution |-> <<>>]

\* The process ends with exit code code after writing message to standard
\* error; for an exception no handler of the script catches, the interpreter
\* writes the traceback and the code is 1.
Exits(code, message) ==
    /\ oa_pc' = "exited"
    /\ exit_code' = code
    /\ stderr' = IF message = "" THEN stderr ELSE Append(stderr, message)

\* Handlers that report the failure and let the script end normally.
Handled_exit_zero(failure) ==
    Exits(0, IF failure = "HTTPError" THEN "HTTP request failed" ELSE "network request error")

\* The handlers of lines 309-314.
Handled(failure) ==
    Exits(1, IF failure = "HTTPError" THEN "HTTP request failed" ELSE "network request error")

\* A request as logged: the URL ("work" for the target work, "works" for a
\* page of citing works), the cursor sent and how the request ended.
Request(url, cur, outcome) == [url |-> url, cursor |-> cur, outcome |-> outcome]

\* main takes the API path: force_refresh, or nothing usable in the file.
TakesApiPath == force_refresh \/ (~ load_json_raises(rawFile) /\ ~ Truthy(load_json(rawFile)))

\* A main that uses the cached document even with force_refresh.
UseCached_despite_refresh ==
    /\ oa_pc = "start"
    /\ ~ load_json_raises(rawFile)
    /\ Truthy(load_json(rawFile))
    /\ citing_records' = load_json(rawFile)
    /\ oa_pc' = "write_raw"
    /\ UNCHANGED <<generator, force_refresh, rawFile, oa_server, cursor, oa_requests, oa_filtered,
                   reports, stderr, exit_code>>
    /\ UNCHANGED <<collectVars, cacheFile, procs>>

\* Lines 259-263: the cached document is used as citing_records.
UseCached ==
    /\ oa_pc = "start"
    /\ ~ force_refresh
    /\ ~ load_json_raises(rawFile)
    /\ Truthy(load_json(rawFile))
    /\ citing_records' = load_json(rawFile)
    /\ oa_pc' = "write_raw"
    /\ UNCHANGED <<generator, force_refresh, rawFile, oa_server, cursor, oa_requests, oa_filtered,
                   reports, stderr, exit_code>>
    /\ UNCHANGED <<collectVars, cacheFile, procs>>

\* Line 260 on a file that cannot be decoded.
LoadCachedRaises ==
    /\ oa_pc = "start"
    /\ ~ force_refresh
    /\ load_json_raises(rawFile)
    /\ Exits(1, "Traceback")
    /\ UNCHANGED <<generator, force_refresh, rawFile, oa_server, cursor, citing_records, oa_requests,
                   oa_filtered, reports>>
    /\ UNCHANGED <<collectVars, cacheFile, procs>>

\* fetch_target_work answers: fetch_citing_works starts with cursor "*", the
\* cursor of the first page.
FetchTarget ==
    /\ oa_pc = "start"
    /\ TakesApiPath
    /\ oa_requests' = Append(oa_requests, Request("work", 0, "ok"))
    /\ cursor' = 1
    /\ citing_records' = JsonList(<<>>)
    /\ oa_pc' = "fetch_pages"
    /\ UNCHANGED <<generator, force_refresh, rawFile, oa_server, oa_filtered, reports, stderr,
                   exit_code>>
    /\ UNCHANGED <<collectVars, cacheFile, procs>>

\* fetch_target_work raises.
FetchTargetFails ==
    /\ oa_pc = "start"
    /\ TakesApiPath
    /\ \E failure \in RequestFailures :
           /\ oa_requests' = Append(oa_requests, Request("work", 0, failure))
           /\ Handled(failure)
    /\ UNCHANGED <<generator, force_refresh, rawFile, oa_server, cursor, citing_records, oa_filtered,
                   reports>>
    /\ UNCHANGED <<collectVars, cacheFile, procs>>

\* A loop that puts the results of each page in front of the earlier ones.
FetchCitingPage_prepend ==
    /\ oa_pc = "fetch_pages"
    /\ cursor # 0
    /\ oa_requests' = Append(oa_requests, Request("works", cursor, "ok"))
    /\ citing_records' = JsonList(oa_server[cursor] \o citing_records.items)
    /\ cursor' = IF cursor < Len(oa_server) THEN cursor + 1 ELSE 0
    /\ oa_pc' = IF cursor < Len(oa_server) THEN "fetch_pages" ELSE "write_raw"
    /\ UNCHANGED <<generator, force_refresh, rawFile, oa_server, oa_filtered, reports, stderr,
                   exit_code>>
    /\ UNCHANGED <<collectVars, cacheFile, procs>>

\* One iteration of the loop of fetch_citing_works: the page of the cursor is
\* requested and answers; the loop ends when the answer has no next_cursor.
FetchCitingPage ==
    /\ oa_pc = "fetch_pages"
    /\ cursor # 0
    /\ oa_requests' = Append(oa_requests, Request("works", cursor, "ok"))
    /\ citing_records' = JsonList(citing_records.items \o oa_server[cursor])
    /\ cursor' = IF cursor < Len(oa_server) THEN cursor + 1 ELSE 0
    /\ oa_pc' = IF cursor < Len(oa_server) THEN "fetch_pages" ELSE "write_raw"
    /\ UNCHANGED <<generator, force_refresh, rawFile, oa_server, oa_filtered, reports, stderr,
                   exit_code>>
    /\ UNCHANGED <<collectVars, cacheFile, procs>>

\* A failure of a page request after which the records fetched so far are written.
FetchCitingPageFails_keeps_pages ==
    /\ oa_pc = "fetch_pages"
    /\ cursor # 0
    /\ rawFile' = [kind |-> "json", data |-> citing_records]
    /\ \E failure \in RequestFailures :
           /\ oa_requests' = Append(oa_requests, Request("works", cursor, failure))
           /\ Handled(failure)
    /\ UNCHANGED <<generator, force_refresh, oa_server, cursor, citing_records, oa_filtered, reports>>
    /\ UNCHANGED <<collectVars, cacheFile, procs>>

\* A request of fetch_citing_works raises: the records fetched so far are
\* local to fetch_citing_works and are gone with it.
FetchCitingPageFails ==
    /\ oa_pc = "fetch_pages"
    /\ cursor # 0
    /\ citing_records' = JsonNull
    /\ \E failure \in RequestFailures :
           /\ oa_requests' = Append(oa_requests, Request("works", cursor, failure))
           /\ Handled(failure)
    /\ UNCHANGED <<generator, force_refresh, rawFile, oa_server, cursor, oa_filtered, reports>>
    /\ UNCHANGED <<collectVars, cacheFile, procs>>

\* Lines 271-274.
WriteRawJson ==
    /\ oa_pc = "write_raw"
    /\ rawFile' = [kind |-> "json", data |-> citing_records]
    /\ oa_pc' = "filter"
    /\ UNCHANGED <<generator, force_refresh, oa_server, cursor, citing_records, oa_requests, oa_filtered,
                   reports, stderr, exit_code>>
    /\ UNCHANGED <<collectVars, cacheFile, procs>>

\* Lines 276-281 over a list of JSON objects: works, or whatever objects the
\* cached document holds (every field is read with .get).
FilterCitingRecords ==
    /\ oa_pc = "filter"
    /\ citing_records.type = "list"
    /\ oa_filtered' = FilterCiting(citing_records.items)
    /\ oa_pc' = "report"
    /\ UNCHANGED <<generator, force_refresh, rawFile, oa_server, cursor, citing_records, oa_requests,
                   reports, stderr, exit_code>>
    /\ UNCHANGED <<collectVars, cacheFile, procs>>

\* Lines 276-278 over a cached document that is not a list: iterating an
\* object yields its keys, and record.get raises AttributeError on a string.
FilterCitingRecordsRaises ==
    /\ oa_pc = "filter"
    /\ citing_records.type # "list"
    /\ Exits(1, "Traceback")
    /\ UNCHANGED <<generator, force_refresh, rawFile, oa_server, cursor, citing_records, oa_requests,
                   oa_filtered, reports>>
    /\ UNCHANGED <<collectVars, cacheFile, procs>>

\* Lines 283-295, and the end of the script: exit code 0.
WriteReports ==
    /\ oa_pc = "report"
    /\ \E rows \in {[i \in DOMAIN oa_filtered |-> openalex_output_row(i, oa_filtered[i])]} :
           reports' = [csv |-> [written |-> TRUE, rows |-> rows],
                       markdown |-> openalex_markdown_summary(rows, Len(citing_records.items),
                                                              Len(oa_filtered))]
    /\ Exits(0, "")
    /\ UNCHANGED <<generator, force_refresh, rawFile, oa_server, cursor, citing_records, oa_requests,
                   oa_filtered>>
    /\ UNCHANGED <<collectVars, cacheFile, procs>>

\* load_dataframe: read_csv gives the year column as integers when every cell
\* is a number, and as strings when a cell holds the placeholder. The cells
\* in row order: the year read, and whether the cell is a string.
YearColumn(csv) ==
    [i \in DOMAIN csv |->
        [str |-> \E j \in DOMAIN csv : csv[j].year.missing,
         missing |-> csv[i].year.missing,
         year |-> csv[i].year.year]]

\* int(year) raises ValueError on the placeholder; pd.isna is False for it.
IntRaises(cell) == cell.str /\ cell.missing

\* The loop of lines 366-371 over a column without a cell on which int raises.
YearDistribution(column) ==
    [y \in {column[i].year : i \in DOMAIN column} |->
        Cardinality({i \in DOMAIN column : column[i].year = y})]

\* generate_openalex_report.py run after the script ended with code 0, on a
\* CSV with rows and years that int accepts: the report is written.
GenerateReport ==
    /\ oa_pc = "exited" /\ exit_code = 0
    /\ generator.at = "not_run"
    /\ reports.csv.rows # <<>>
    /\ \E column \in {YearColumn(reports.csv.rows)} :
           /\ \A i \in DOMAIN column : ~ IntRaises(column[i])
           /\ generator' = [at |-> "done", year_distribution |-> YearDistribution(column)]
    /\ UNCHANGED <<oa_pc, force_refresh, rawFile, oa_server, cursor, citing_records,
                   oa_requests, oa_filtered, reports, stderr, exit_code>>
    /\ UNCHANGED <<collectVars, cacheFile, procs>>

\* generate_openalex_report.py raises: in load_dataframe on a CSV without rows
\* (the file of an empty DataFrame has no columns to name), or in int(year)
\* on the placeholder of a missing year. No report is written.
GenerateReportRaises ==
    /\ oa_pc = "exited" /\ exit_code = 0
    /\ generator.at = "not_run"
    /\ \/ reports.csv.rows = <<>>
       \/ \E column \in {YearColumn(reports.csv.rows)} :
              \E i \in DOMAIN column : IntRaises(column[i])
    /\ generator' = [at |-> "raised", year_distribution |-> <<>>]
    /\ UNCHANGED <<oa_pc, force_refresh, rawFile, oa_server, cursor, citing_records,
                   oa_requests, oa_filtered, reports, stderr, exit_code>>
    /\ UNCHANGED <<collectVars, cacheFile, procs>>

OpenAlexNext ==
    \/ UseCached
    \/ LoadCachedRaises
    \/ FetchTarget
    \/ FetchTargetFails
    \/ FetchCitingPage
    \/ FetchCitingPageFails
    \/ WriteRawJson
    \/ FilterCitingRecords
    \/ FilterCitingRecordsRaises
    \/ WriteReports
    \/ GenerateReport
    \/ GenerateReportRaises

SpecOpenAlex == OpenAlexInit /\ [][OpenAlexNext]_vars

\* ========================================================================
\* query_crossref over responses with several candidates
\* ========================================================================

\* Titled "AB  XY.": normalizes like the title of wSix, another DOI.
wSixB == Work(<< <<"A","B"," "," ","X","Y",".">> >>, <<aMa>>, <<"1","0",".","6">>, <<>>, 2017)

\* Answers of the API with candidates that score alike, score 0, or have no title.
CandidatePool ==
    { Response(<<>>), Response(<<wNoTitle>>), Response(<<wXy>>), Response(<<wExact>>),
      Response(<<wNoTitle, wSix, wSixB>>), Response(<<wSixB, wSix>>),
      Response(<<wLow, wExact, wSix>>), Response(<<wXy, wNoTitle, wXy>>) }

\* The deduplicated records enrich_records is called with.
QueryRecords ==
    { <<ScholarRecord(e, 0)>> : e \in {e1, e3, e4} }
    \cup { <<ScholarRecord(e1, 0), ScholarRecord(e, 0)>> : e \in {e3, e4} }

\* enrich_records has loaded an empty cache (line 413, no cache file).
QueryInit ==
    /\ pc = "enrich"
    /\ run = 1
    /\ scope = 1
    /\ start = 0
    /\ total_expected = NoYear
    /\ collected = <<>>
    /\ scraped_by_year = <<>>
    /\ combined_records \in QueryRecords
    /\ seen_keys = {}
    /\ rawFile = [kind |-> "missing", data |-> JsonNull]
    /\ cacheFile = [kind |-> "missing", data |-> EmptyDict]
    /\ cache = EmptyDict
    /\ pos = 0
    /\ enriched = <<>>
    /\ sent = <<>>
    /\ filtered_records = <<>>
    /\ reports = OldReports
    /\ OpenAlexIdle
    /\ procs = <<>>

\* One iteration of the loop of enrich_records for a title the cache does not
\* hold: the request comes back with resp.
QueryFromApi ==
    /\ pc = "enrich"
    /\ pos < Len(combined_records)
    /\ \E record \in {combined_records[pos + 1]} :
           /\ ~ CacheHit(record.title, cache)
           /\ \E resp \in CandidatePool :
                 \E q \in {query_crossref(record.title, resp, cache)} :
                     /\ enriched' = Append(enriched, EnrichedRecord(record, q.info))
                     /\ cache' = q.cache
                     /\ sent' = Append(sent, [index |-> pos + 1, title |-> record.title,
                                              resp |-> resp])
    /\ pos' = pos + 1
    /\ UNCHANGED <<pc, run, scrapeVars, dedupVars, fileVars, filtered_records>>
    /\ UNCHANGED notCollect

SpecQuery == QueryInit /\ [][QueryFromApi \/ EnrichFromCache \/ EnrichSave]_vars

\* ========================================================================
\* enrich_records invoked concurrently
\* ========================================================================

\* Two processes run enrich_records at the same time over the cache file.
Invocations == {1, 2}

\* The deduplicated records an invocation is called with.
InvocationRecords ==
    { <<ScholarRecord(e1, 0)>>, <<ScholarRecord(e4, 0)>>,
      <<ScholarRecord(e3, 0), ScholarRecord(e4, 0)>> }

\* An invocation at its start: nothing loaded, no record processed.
Invocation(records) ==
    [at |-> "load", records |-> records, cache |-> EmptyDict, pos |-> 0,
     enriched |-> <<>>, sent |-> <<>>]

ConcurrentInit ==
    /\ CollectIdle
    /\ rawFile = [kind |-> "missing", data |-> JsonNull]
    /\ reports = OldReports
    /\ OpenAlexIdle
    /\ procs \in [Invocations -> {Invocation(records) : records \in InvocationRecords}]

\* What an invocation leaves alone: everything but the cache file.
notCacheFile ==
    <<pc, run, scope, start, total_expected, collected, scraped_by_year, combined_records,
      seen_keys, rawFile, cache, pos, enriched, sent, filtered_records, reports, openalexVars>>

\* Line 413 in invocation p.
InvocationLoad(p) ==
    /\ procs[p].at = "load"
    /\ ~ load_crossref_cache_raises(cacheFile)
    /\ procs' = [procs EXCEPT ![p].cache = load_crossref_cache(cacheFile),
                              ![p].at = "enrich"]
    /\ UNCHANGED <<cacheFile, notCacheFile>>

\* One iteration of the loop of lines 416-466 in invocation p, for a title its
\* cache holds.
InvocationEnrichFromCache(p) ==
    /\ procs[p].at = "enrich"
    /\ procs[p].pos < Len(procs[p].records)
    /\ \E record \in {procs[p].records[procs[p].pos + 1]} :
           /\ CacheHit(record.title, procs[p].cache)
           /\ \E q \in {query_crossref(record.title, HttpError, procs[p].cache)} :
                  procs' = [procs EXCEPT
                               ![p].enriched = Append(@, EnrichedRecord(record, q.info)),
                               ![p].cache = q.cache,
                               ![p].pos = @ + 1]
    /\ UNCHANGED <<cacheFile, notCacheFile>>

\* One iteration of the loop in invocation p, for a title its cache does not
\* hold: a request is sent and comes back with resp.
InvocationEnrichFromApi(p) ==
    /\ procs[p].at = "enrich"
    /\ procs[p].pos < Len(procs[p].records)
    /\ \E record \in {procs[p].records[procs[p].pos + 1]} :
           /\ ~ CacheHit(record.title, procs[p].cache)
           /\ \E resp \in ResponsePool \cup {RefusedError} :
                  \E q \in {query_crossref(record.title, resp, procs[p].cache)} :
                      procs' = [procs EXCEPT
                                   ![p].enriched = Append(@, EnrichedRecord(record, q.info)),
                                   ![p].cache = q.cache,
                                   ![p].sent = Append(@, normalize_title(record.title)),
                                   ![p].pos = @ + 1]
    /\ UNCHANGED <<cacheFile, notCacheFile>>

\* Line 468 in invocation p, first step of write_text (line 315): the file is
\* opened for writing, which empties it. The text is written in a later
\* step, and the other invocation may read or write the file in between.
InvocationTruncate(p) ==
    /\ procs[p].at = "enrich"
    /\ procs[p].pos = Len(procs[p].records)
    /\ cacheFile' = [kind |-> "empty", data |-> EmptyDict]
    /\ procs' = [procs EXCEPT ![p].at = "write"]
    /\ UNCHANGED notCacheFile

\* A write that reads the file again and adds the entries of the invocation.
InvocationSave_merging(p) ==
    /\ procs[p].at = "write"
    /\ cacheFile' = save_crossref_cache(procs[p].cache @@ load_crossref_cache(cacheFile))
    /\ procs' = [procs EXCEPT ![p].at = "done"]
    /\ UNCHANGED notCacheFile

\* Second step of write_text in invocation p: the text of the whole mapping
\* is written from offset 0 and the file is closed. Over an empty file the
\* content is the mapping of the invocation. When the other invocation has
\* written since p emptied the file, p's text replaces the start of that text
\* and what lies beyond p's text stays. Nothing stays when the text in the
\* file is no longer than p's, as it is when p holds every entry of the file;
\* a rest stays when it is longer, as it is when the file holds every entry
\* of p and more. After p's text the rest makes json.loads raise
\* JSONDecodeError ("corrupt"), and a rest that begins inside a character of
\* more than one byte makes read_text raise UnicodeDecodeError
\* ("undecodable"). The lengths of the texts and the order of the entries in
\* them (the insertion order of the dict) are not modelled: where the
\* mappings do not tell which text is longer both outcomes are taken, and a
\* rest of a text with a multi-byte character may begin inside one or not.
InvocationSave(p) ==
    /\ procs[p].at = "write"
    /\ \/ /\ \/ cacheFile.kind # "mapping"
             \/ procs[p].cache = cacheFile.data
             \/ ~ SubMapping(procs[p].cache, cacheFile.data)
          /\ cacheFile' = save_crossref_cache(procs[p].cache)
       \/ /\ cacheFile.kind = "mapping"
          /\ ~ SubMapping(cacheFile.data, procs[p].cache)
          /\ \/ cacheFile' = [kind |-> "corrupt", data |-> EmptyDict]
             \/ /\ MultiByteText(cacheFile.data)
                /\ cacheFile' = [kind |-> "undecodable", data |-> EmptyDict]
    /\ procs' = [procs EXCEPT ![p].at = "done"]
    /\ UNCHANGED notCacheFile

ConcurrentNext ==
    \E p \in Invocations :
        \/ InvocationLoad(p)
        \/ InvocationEnrichFromCache(p)
        \/ InvocationEnrichFromApi(p)
        \/ InvocationTruncate(p)
        \/ InvocationSave(p)

SpecConcurrent == ConcurrentInit /\ [][ConcurrentNext]_vars

\* ========================================================================
\* Properties
\* ========================================================================

SeqToSet(s) == {s[i] : i \in DOMAIN s}

\* The deduplication pass has run.
Deduplicated == pc \in {"persist_raw", "enrich_load", "enrich", "filter", "report", "done"}

\* The identity of a record: its cluster id when it has one, else its
\* normalized title.
Identity(r) ==
    IF r.cluster_id # <<>>
    THEN [kind |-> "cluster", id |-> r.cluster_id]
    ELSE [kind |-> "title", id |-> normalize_title(r.title)]

\* Scopes s1 # s2 both hold a record of cluster cid.
InTwoScopes(cid) ==
    \E s1, s2 \in DOMAIN scraped_by_year :
        /\ s1 # s2
        /\ \E i \in DOMAIN scraped_by_year[s1] : scraped_by_year[s1][i].cluster_id = cid
        /\ \E j \in DOMAIN scraped_by_year[s2] : scraped_by_year[s2][j].cluster_id = cid

\* C1: after the deduplication pass no two records of the combined set have
\* the same identity (cluster id when present, else normalized title), and a
\* cluster id fetched in two different scopes is held by exactly one record of
\* the combined set.
C1_UniqueIdentity ==
    Deduplicated =>
        /\ \A ident \in {[i \in DOMAIN combined_records |-> Identity(combined_records[i])]} :
               \A i, j \in DOMAIN combined_records : i # j => ident[i] # ident[j]
        /\ pc = "persist_raw" =>
               \A cid \in {<<"c","1">>, <<"c","2">>} :
                   InTwoScopes(cid) =>
                       Cardinality({i \in DOMAIN combined_records :
                                        combined_records[i].cluster_id = cid}) = 1

\* A cluster id came from two scopes and the combined set holds several records.
C1_Witness ==
    /\ pc = "persist_raw"
    /\ InTwoScopes(<<"c","1">>)
    /\ Len(combined_records) >= 2
    /\ Len(Flatten(scraped_by_year)) > Len(combined_records)

\* The self-citation filter has run on the enriched records.
FilterDone == pc \in {"report", "done"}

Denylisted(names) ==
    \E i \in DOMAIN names :
        names[i] # <<>> /\ normalize_author_name(names[i]) \in ORIGINAL_AUTHORS

Kept(r) == r \in SeqToSet(filtered_records)

\* C2 as claimed: a record is dropped exactly when some author name of it,
\* scraped or enrichment-derived, normalizes to a denylist entry.
C2_AnyCandidateName ==
    FilterDone =>
        \A r \in SeqToSet(enriched) :
            Kept(r) <=> ~ (Denylisted(r.authors_list) \/ Denylisted(r.authors_crossref))

\* The author names the filter decides on: the enrichment list when it is
\* non-empty, else the scraped list.
DecidingNames(r) == IF r.authors_crossref # <<>> THEN r.authors_crossref ELSE r.authors_list

\* C2 (amended): a record is dropped exactly when some name of its final
\* author list (the enrichment list when non-empty, else the scraped list)
\* normalizes to a denylist entry; scraped names are not looked at when the
\* enrichment returned authors.
C2_FinalAuthorNames ==
    FilterDone =>
        /\ \A r \in SeqToSet(enriched) : Kept(r) <=> ~ Denylisted(DecidingNames(r))
        /\ SeqToSet(filtered_records) \subseteq SeqToSet(enriched)

\* One record was dropped for a denylisted name written with punctuation or
\* capitals, another was kept.
C2_Witness ==
    /\ FilterDone
    /\ \E r \in SeqToSet(enriched) :
           /\ ~ Kept(r)
           /\ \E i \in DOMAIN DecidingNames(r) :
                  /\ DecidingNames(r)[i] \notin ORIGINAL_AUTHORS
                  /\ normalize_author_name(DecidingNames(r)[i]) \in ORIGINAL_AUTHORS
    /\ \E r \in SeqToSet(enriched) : Kept(r) /\ DecidingNames(r) # <<>>

\* enrich_records has processed the first Len(enriched) records and the cache
\* in memory holds their entries.
Enriching == pc \in {"enrich", "filter", "report", "done"}

\* The enrichment result used for the i-th record.
EntryOf(i) == cache[normalize_title(combined_records[i].title)]

EntryAuthors(entry) == IF "authors" \in DOMAIN entry THEN entry.authors ELSE <<>>

\* C3: when the enrichment result of a record carries no author the final
\* authors are the scraped list; when it carries authors the final authors
\* are the enrichment list.
C3_MergeAuthors ==
    Enriching =>
        \A i \in DOMAIN enriched :
            \A authors \in {EntryAuthors(EntryOf(i))} :
                /\ authors = <<>> =>
                       enriched[i].final_authors = combined_records[i].authors_list
                /\ authors # <<>> => enriched[i].final_authors = authors

\* A record fell back to its scraped authors and another took enrichment
\* authors that differ from its scraped ones.
C3_Witness ==
    /\ Enriching
    /\ \E i \in DOMAIN enriched :
           /\ EntryAuthors(EntryOf(i)) = <<>>
           /\ combined_records[i].authors_list # <<>>
    /\ \E i \in DOMAIN enriched :
           /\ EntryAuthors(EntryOf(i)) # <<>>
           /\ combined_records[i].authors_list # <<>>
           /\ combined_records[i].authors_list # EntryAuthors(EntryOf(i))

\* The best similarity among the titled works of a response, for a
\* normalized query title (0 when there is none).
TitledScores(resp, norm_title) ==
    {sequence_score(normalize_title(resp.items[k].title[1]), norm_title) :
         k \in {n \in DOMAIN resp.items : resp.items[n].title # <<>>}}

BestScore(resp, norm_title) ==
    Only({ IF scores = {} THEN Frac(0, 1)
           ELSE CHOOSE x \in scores : \A y \in scores : ~ ScoreLT(x, y)
           : scores \in {TitledScores(resp, norm_title)} })

\* The requests of this run that were answered (no HTTP failure).
Answered == {k \in DOMAIN sent : sent[k].resp.ok}

SixTenths == Frac(3, 5)

\* C4: a request whose best title similarity is exactly 0.6 is cached with
\* status "ok"; one whose best similarity is below 0.6 is cached as "no_match"
\* with the score only, and the record gets no DOI, venue or enrichment authors.
C4_Threshold ==
    Enriching =>
        \A k \in Answered :
            \E nt \in {normalize_title(sent[k].title)} :
            \E best \in {BestScore(sent[k].resp, nt)} :
            LET r == enriched[sent[k].index]
            IN  /\ best = SixTenths => cache[nt].status = "ok" /\ r.crossref_status = "ok"
                /\ ScoreLT(best, SixTenths) =>
                       /\ cache[nt] = [status |-> "no_match", score |-> best]
                       /\ r.crossref_status = "no_match"
                       /\ r.doi = <<>> /\ r.journal = <<>> /\ r.authors_crossref = <<>>

\* One request of the run scored exactly 0.6 and was accepted, another scored
\* above 0 and below 0.6 and was rejected.
C4_Witness ==
    /\ Enriching
    /\ \E k \in Answered :
           /\ BestScore(sent[k].resp, normalize_title(sent[k].title)) = SixTenths
           /\ enriched[sent[k].index].crossref_status = "ok"
    /\ \E k \in Answered :
           /\ ScoreLT(BestScore(sent[k].resp, normalize_title(sent[k].title)), SixTenths)
           /\ ScoreLT(Frac(0, 1), BestScore(sent[k].resp, normalize_title(sent[k].title)))
           /\ enriched[sent[k].index].crossref_status = "no_match"

\* C5: a run over the same records, started after a run that completed and
\* with the cache file as that run left it, sends no request: every title is
\* answered from the cache.
C5_RerunSendsNothing ==
    run >= 2 => sent = <<>>

\* A second run has enriched every record, among them one whose request
\* failed in the first run, and one record at least.
C5_Witness ==
    /\ run = 2
    /\ pc = "done"
    /\ Len(enriched) = Len(combined_records)
    /\ \E i \in DOMAIN enriched : enriched[i].crossref_status = "error"
    /\ \E i \in DOMAIN enriched : enriched[i].crossref_status = "no_match"

\* Titles as they may be queried, several of them with the same normalized form.
TitlePool ==
    { <<"A","b"," ","C","d">>, <<"a","b","-","c","d">>, <<"a","b"," ","c","d">>,
      <<" ","A","B",NBSP,"c","d",".">>, <<"X","y",".">>, <<"X","y">>, <<"x","y">>,
      <<"a","b","c","d">> }

\* The normalized form of each title of the pool.
NormalForm == [t \in TitlePool |-> normalize_title(t)]

\* What the lookup at the head of query_crossref finds for a title: the entry
\* in a one-element sequence, or nothing.
Found(title) == IF CacheHit(title, cache) THEN <<CacheLookup(title, cache)>> ELSE <<>>

\* The fields of a record that come from its cache entry.
FromEntry(r) == <<r.crossref_status, r.crossref_score, r.doi, r.journal, r.authors_crossref>>

\* C6: in every state of the cache, titles with the same normalized form find
\* the same cached entry; records of a run whose titles normalize alike were
\* enriched from the same entry.
C6_SameKeySameEntry ==
    /\ \A found \in {[t \in TitlePool |-> Found(t)]} :
           \A t1, t2 \in TitlePool :
               NormalForm[t1] = NormalForm[t2] => found[t1] = found[t2]
    /\ Enriching =>
           \A norm \in {[i \in DOMAIN enriched |-> normalize_title(enriched[i].title)]} :
               \A i, j \in DOMAIN enriched :
                   norm[i] = norm[j] => FromEntry(enriched[i]) = FromEntry(enriched[j])

\* The cache holds an entry found through differently written titles, and two
\* records with different titles were enriched from it.
C6_Witness ==
    /\ Enriching
    /\ Found(<<"A","b"," ","C","d">>) # <<>>
    /\ Found(<<" ","A","B",NBSP,"c","d",".">>) = Found(<<"A","b"," ","C","d">>)
    /\ Len(sent) = 1
    /\ \E i, j \in DOMAIN enriched :
           /\ enriched[i].title # enriched[j].title
           /\ normalize_title(enriched[i].title) = normalize_title(enriched[j].title)

\* C7 as claimed: a page fetch that throws loses only that page; the records
\* collected for the scope are kept and the run goes on.
C7_PageFailureLosesOnlyThePage ==
    [][FetchPageRaises => (pc' # "aborted" /\ collected' = collected)]_vars

\* C7 (amended): a page fetch that throws ends the whole run: no later page
\* or scope is fetched, no later stage runs, and neither the raw store, the
\* cache file nor the reports are written.
C7_PageFailureAbortsRun ==
    pc = "aborted" =>
        /\ ~ ENABLED Next
        /\ rawFile \in RawFilePool
        /\ reports = OldReports
        /\ cacheFile \in CacheFilePool
        /\ combined_records = <<>> /\ enriched = <<>>

\* A page fetch threw after a page of the scope had been collected, with
\* scopes still to fetch.
C7_Witness ==
    /\ pc = "aborted"
    /\ start > 0
    /\ scope < Len(scrape_targets)

\* The requests of this run that failed.
Failed == {k \in DOMAIN sent : ~ sent[k].resp.ok}

\* C8: a failed request leaves a cache entry of status "error" under the
\* normalized title, and the record is still emitted, unenriched: no DOI, no
\* venue, no enrichment authors, final authors from the scraped list.
C8_ErrorEntry ==
    Enriching =>
        /\ Len(enriched) = pos
        /\ \A k \in Failed :
               LET nt == normalize_title(sent[k].title)
                   r == enriched[sent[k].index]
               IN  /\ nt \in DOMAIN cache
                   /\ cache[nt].status = "error"
                   /\ r.title = sent[k].title
                   /\ r.crossref_status = "error"
                   /\ r.doi = <<>> /\ r.journal = <<>>
                   /\ r.authors_crossref = <<>>
                   /\ r.final_authors = combined_records[sent[k].index].authors_list

\* A request failed for a record that has scraped authors, and the run went on
\* to save the cache.
C8_Witness ==
    /\ pc = "done"
    /\ \E k \in Failed :
           /\ enriched[sent[k].index].final_authors # <<>>
           /\ cacheFile.data[normalize_title(sent[k].title)].status = "error"

\* C9: for every enriched record the final affiliation list is as long as the
\* final author list and the enrichment affiliation list as long as the
\* enrichment author list, whatever the lists of the cache entry.
C9_AlignedAffiliations ==
    \A i \in DOMAIN enriched :
        /\ Len(enriched[i].final_author_affiliations) = Len(enriched[i].final_authors)
        /\ Len(enriched[i].authors_crossref_affiliations) = Len(enriched[i].authors_crossref)

EntryAffiliations(entry) ==
    IF "authors_affiliations" \in DOMAIN entry THEN entry.authors_affiliations ELSE <<>>

\* Records were enriched from an entry with fewer affiliation lists than
\* authors and from one with more.
C9_Witness ==
    /\ Enriching
    /\ \E i \in DOMAIN enriched :
           Len(EntryAffiliations(EntryOf(i))) < Len(EntryAuthors(EntryOf(i)))
    /\ \E i \in DOMAIN enriched :
           Len(EntryAffiliations(EntryOf(i))) > Len(EntryAuthors(EntryOf(i)))

\* The enrichment entry of a filtered record.
EntryOfRecord(r) == cache[normalize_title(r.title)]

\* C10: a record with an accepted match and enrichment authors has the
\* enrichment authors, joined, in the author column of its row and the
\* provenance tag of the enrichment source; the row does not show the scraped
\* authors.
C10_RowShowsEnrichmentAuthors ==
    pc = "done" =>
        /\ Len(reports.csv.rows) = Len(filtered_records)
        /\ \A i \in DOMAIN filtered_records :
               LET r == filtered_records[i]
                   entry == EntryOfRecord(r)
               IN  (Get(entry, "status", "") = "ok" /\ EntryAuthors(entry) # <<>>) =>
                       /\ reports.csv.rows[i].title = r.title
                       /\ reports.csv.rows[i].authors = Join(<<";", " ">>, EntryAuthors(entry))
                       /\ r.author_source = "crossref"
                       /\ \A n \in DOMAIN reports.csv.rows[i].notes :
                              reports.csv.rows[i].notes[n].key # "author_source"

\* The record scraped as "J Smith, K Lee" matched a work by John Smith with
\* similarity 1, and its row reads "John Smith".
C10_Witness ==
    /\ pc = "done"
    /\ \E i \in DOMAIN filtered_records :
           /\ filtered_records[i].authors_list =
                  << <<"J"," ","S","m","i","t","h">>, <<"K"," ","L","e","e">> >>
           /\ filtered_records[i].crossref_score = Frac(1, 1)
           /\ reports.csv.rows[i].authors = <<"J","o","h","n"," ","S","m","i","t","h">>
           /\ filtered_records[i].author_source = "crossref"

\* ------------------------------------------------------------------------
\* C11
\* ------------------------------------------------------------------------

\* The fetched records in the order the deduplication pass reads them: the
\* year scopes in ascending order, each in fetch order, then the fallback scope.
Fetched == Flatten(scraped_by_year)

\* The positions of all whose identity no earlier position has.
FirstOccurrences(all) ==
    Only({ {i \in DOMAIN all : \A j \in 1..(i - 1) : ident[j] # ident[i]}
           : ident \in {[i \in DOMAIN all |-> Identity(all[i])]} })

\* The subsequence of all at the positions I, in ascending order.
SubsequenceAt(all, I) ==
    [k \in 1..Cardinality(I) |->
        all[CHOOSE i \in I : Cardinality({j \in I : j < i}) = k - 1]]

\* Scope s holds two records of one identity.
DuplicateWithin(s) ==
    \E i, j \in DOMAIN scraped_by_year[s] :
        i < j /\ Identity(scraped_by_year[s][i]) = Identity(scraped_by_year[s][j])

\* Scopes s1 < s2 hold records of one identity.
DuplicateAcross(s1, s2) ==
    \E i \in DOMAIN scraped_by_year[s1], j \in DOMAIN scraped_by_year[s2] :
        Identity(scraped_by_year[s1][i]) = Identity(scraped_by_year[s2][j])

\* C11: the combined record set is the subsequence of the fetched records
\* (year scopes in ascending order, each in fetch order, then the fallback
\* scope) made of the first record seen for each identity; every later record
\* of a seen identity is dropped and the kept records keep their order.
C11_FirstOccurrenceWins ==
    pc = "persist_raw" =>
        /\ combined_records = SubsequenceAt(Fetched, FirstOccurrences(Fetched))
        /\ seen_keys = {record_key(Fetched[i]) : i \in DOMAIN Fetched}

\* A record was dropped inside its scope, another one across scopes, and
\* several records were kept.
C11_Witness ==
    /\ pc = "persist_raw"
    /\ \E s \in DOMAIN scraped_by_year : DuplicateWithin(s)
    /\ \E s1, s2 \in DOMAIN scraped_by_year : s1 < s2 /\ DuplicateAcross(s1, s2)
    /\ Len(combined_records) >= 2

\* ------------------------------------------------------------------------
\* C12
\* ------------------------------------------------------------------------

\* Every entry of mapping d is in mapping e, unchanged.
KeepsEntries(d, e) == \A k \in DOMAIN d : k \in DOMAIN e /\ e[k] = d[k]

\* This step is a call of query_crossref for a title the cache holds.
LookupOfHeldTitle ==
    /\ pc = "enrich"
    /\ pos' = pos + 1
    /\ CacheHit(combined_records[pos'].title, cache)

\* C12: over the calls of query_crossref of a run, an entry of the cache is
\* never replaced or removed, and a later lookup of its key returns that
\* entry and sends no request; the entries of the cache file are still in the
\* file, unchanged, after every later save.
C12_EntriesNeverExpire ==
    [][ /\ pc = "enrich" => KeepsEntries(cache, cache')
        /\ LookupOfHeldTitle =>
               /\ cache' = cache
               /\ sent' = sent
               /\ FromEntry(enriched'[pos']) =
                      FromEntry(EnrichedRecord(combined_records[pos'],
                                               CacheLookup(combined_records[pos'].title, cache)))
        /\ (cacheFile.kind = "mapping" /\ cacheFile' # cacheFile) =>
               cacheFile'.kind = "mapping" /\ KeepsEntries(cacheFile.data, cacheFile'.data)
      ]_vars

\* In a second run, a record was answered from an entry that a request of the
\* first run created, with the entries of the earlier cache file beside it.
C12_Witness ==
    /\ run = 2
    /\ pc = "enrich"
    /\ pos >= 1
    /\ Cardinality(DOMAIN cache) >= 2
    /\ \E i \in DOMAIN enriched :
           /\ enriched[i].crossref_status = "no_match"
           /\ EntryOf(i) = cacheFile.data[normalize_title(enriched[i].title)]

\* ------------------------------------------------------------------------
\* C13
\* ------------------------------------------------------------------------

\* A request of the primary fetch failed.
NetworkError == \E k \in DOMAIN oa_requests : oa_requests[k].outcome # "ok"

\* C13 as claimed: the process exits with code 1 and a message on standard
\* error when a request of the primary fetch failed, and with code 0 when
\* none did.
C13_ExitCodeByNetworkError ==
    oa_pc = "exited" =>
        IF NetworkError THEN exit_code = 1 /\ stderr # <<>> ELSE exit_code = 0

\* C13 (amended): after a failed request of the primary fetch the process has
\* written the handler's message to standard error and exits with code 1,
\* without sending another request; a run that no exception ends exits with
\* code 0 and writes nothing to standard error; an exception that is not a
\* network error is not caught and ends the process with a traceback and
\* exit code 1.
C13_ExitCodes ==
    oa_pc = "exited" =>
        /\ NetworkError =>
               /\ exit_code = 1
               /\ oa_requests[Len(oa_requests)].outcome # "ok"
               /\ \A k \in 1..(Len(oa_requests) - 1) : oa_requests[k].outcome = "ok"
               /\ stderr = << IF oa_requests[Len(oa_requests)].outcome = "HTTPError"
                              THEN "HTTP request failed" ELSE "network request error" >>
        /\ (~ NetworkError /\ reports.markdown.written) => exit_code = 0 /\ stderr = <<>>
        /\ (~ NetworkError /\ ~ reports.markdown.written) =>
               /\ exit_code = 1
               /\ stderr = <<"Traceback">>
               /\ \/ load_json_raises(rawFile)
                  \/ citing_records.type # "list"

\* A page of citing works was fetched and the request of the next page failed.
C13_Witness ==
    /\ oa_pc = "exited"
    /\ exit_code = 1
    /\ Len(oa_requests) >= 3
    /\ oa_requests[Len(oa_requests)].outcome = "HTTPError"

\* ------------------------------------------------------------------------
\* C14
\* ------------------------------------------------------------------------

\* enrich_records has just loaded the cache, in the first run.
JustLoaded == run = 1 /\ pc = "enrich" /\ pos = 0

\* C14 as claimed: loading the cache never fails because of the state of the
\* file, and a missing or corrupt file gives the empty mapping.
C14_LoadNeverFails ==
    /\ pc # "load_failed"
    /\ (JustLoaded /\ cacheFile.kind # "mapping") => cache = EmptyDict

\* ------------------------------------------------------------------------
\* C15
\* ------------------------------------------------------------------------

\* The stage changes of a run of main.
StageOrder ==
    { <<"scrape", "dedup">>, <<"dedup", "persist_raw">>, <<"persist_raw", "enrich_load">>,
      <<"enrich_load", "enrich">>, <<"enrich", "filter">>, <<"filter", "report">>,
      <<"report", "done">> }

\* The stage changes that end a run with an exception or start the next run.
StageBreaks ==
    { <<"scrape", "aborted">>, <<"enrich_load", "load_failed">>, <<"report", "report_failed">>,
      <<"done", "enrich_load">>, <<"report_failed", "enrich_load">> }

\* The records in the raw store.
Stored(file) == file.data.items

\* C15 as claimed: the raw store is written from the fetched records, before
\* deduplication is applied.
C15_RawStoreBeforeDedup ==
    [][rawFile' # rawFile => (combined_records = <<>> /\ Stored(rawFile') = Fetched)]_vars

\* C15 (amended): the stages of a run follow each other as fetch,
\* deduplication, write of the raw store, enrichment, self-citation filter,
\* report; the raw store is written after deduplication, from the
\* deduplicated records.
C15_StageOrder ==
    [][ /\ pc' # pc => <<pc, pc'>> \in StageOrder \cup StageBreaks
        /\ combined_records' # combined_records =>
               /\ pc = "dedup"
               /\ combined_records' = SubsequenceAt(Fetched, FirstOccurrences(Fetched))
               /\ rawFile' = rawFile /\ rawFile \in RawFilePool
        /\ rawFile' # rawFile =>
               /\ pc = "persist_raw"
               /\ rawFile' = [kind |-> "json", data |-> JsonList(combined_records)]
               /\ combined_records = SubsequenceAt(Fetched, FirstOccurrences(Fetched))
               /\ enriched = <<>>
        /\ (enriched' # enriched /\ enriched' # <<>>) =>
               /\ pc = "enrich"
               /\ Stored(rawFile) = combined_records
               /\ filtered_records = <<>>
        /\ (filtered_records' # filtered_records /\ filtered_records' # <<>>) =>
               /\ pc = "filter"
               /\ Len(enriched) = Len(combined_records)
        /\ reports' # reports =>
               /\ pc = "report"
               /\ reports'.csv.written
               /\ Len(reports'.csv.rows) = Len(filtered_records)
      ]_vars

\* A first run went through every stage: duplicates were fetched, the raw
\* store holds the deduplicated records, the filter dropped a record and the
\* report has a row.
C15_Witness ==
    /\ run = 1
    /\ pc = "done"
    /\ Len(Stored(rawFile)) >= 2
    /\ Stored(rawFile) = combined_records
    /\ Len(filtered_records) < Len(enriched)
    /\ Len(reports.csv.rows) >= 1
    /\ reports.markdown.written

\* ------------------------------------------------------------------------
\* C17
\* ------------------------------------------------------------------------

\* C17 as claimed: every record in the raw store before a step of the run is
\* still in it after the step.
C17_AppendOnly ==
    [][\A i \in DOMAIN Stored(rawFile) :
           \E j \in DOMAIN Stored(rawFile') : Stored(rawFile')[j] = Stored(rawFile)[i]]_vars

\* C17 (amended): a run replaces the content of the raw store by the
\* deduplicated records it fetched: after the write the file holds as many
\* records as the deduplicated set and only records this run fetched, and a
\* record an earlier run persisted that this run did not fetch again is gone.
C17_RawStoreReplaced ==
    [][ pc = "persist_raw" =>
            /\ rawFile'.kind = "json" /\ rawFile'.data.type = "list"
            /\ Len(Stored(rawFile')) = Len(combined_records)
            /\ \A j \in DOMAIN Stored(rawFile') :
                   \E k \in DOMAIN Fetched : Fetched[k] = Stored(rawFile')[j]
            /\ \A i \in DOMAIN Stored(rawFile) :
                   (\A k \in DOMAIN Fetched : Fetched[k] # Stored(rawFile)[i])
                       => (\A j \in DOMAIN Stored(rawFile') :
                               Stored(rawFile')[j] # Stored(rawFile)[i])
      ]_vars

\* The raw store of an earlier run was replaced: one of its records was
\* fetched again and is in the file, the other is gone.
C17_Witness ==
    /\ pc = "enrich_load"
    /\ run = 1
    /\ \E i \in DOMAIN Stored(rawFile) : Stored(rawFile)[i] = ScholarRecord(e1, 0)
    /\ \A i \in DOMAIN Stored(rawFile) : Stored(rawFile)[i] # ScholarRecord(eOld, 0)
    /\ Len(Stored(rawFile)) >= 2

\* ------------------------------------------------------------------------
\* C16
\* ------------------------------------------------------------------------

\* Invocation p writes its text in this step.
Saves(p) == procs[p].at = "write" /\ procs'[p].at = "done"

\* The keys of the entries invocation p created by its own requests.
Written(p) == {procs[p].sent[k] : k \in DOMAIN procs[p].sent}

\* C16: a save replaces the cache file by the mapping of the saving
\* invocation alone: every entry of the file that the saving invocation does
\* not hold, such as one another invocation wrote after this one loaded, is
\* gone from the file, so concurrent invocations lose each other's entries.
C16_SaveOverwrites ==
    [][\A p \in Invocations :
           Saves(p) =>
               /\ cacheFile'.kind = "mapping" => cacheFile'.data = procs[p].cache
               /\ \A k \in DOMAIN load_crossref_cache(cacheFile) :
                      k \notin DOMAIN procs[p].cache
                          => k \notin DOMAIN load_crossref_cache(cacheFile')
      ]_vars

\* Both invocations have finished, and an entry that invocation 1 created and
\* saved is absent from the file: invocation 2, which had loaded before that
\* save, wrote its own mapping over it.
C16_Witness ==
    /\ \A p \in Invocations : procs[p].at = "done"
    /\ cacheFile.kind = "mapping"
    /\ cacheFile.data = procs[2].cache
    /\ \E k \in Written(1) :
           /\ k \in DOMAIN procs[1].cache
           /\ k \notin DOMAIN cacheFile.data

\* ------------------------------------------------------------------------
\* C18
\* ------------------------------------------------------------------------

\* The provenance tag the claim gives to a record scraped as scraped whose
\* enrichment entry is entry.
ClaimedTag(scraped, entry) ==
    IF EntryAuthors(entry) # <<>> THEN "crossref"
    ELSE IF scraped.authors_list = <<>> THEN "unknown"
    ELSE IF scraped.authors_truncated THEN "scholar_truncated"
    ELSE "scholar"

\* C18: the provenance tag of every enriched record agrees with the merge
\* branch taken: the enrichment tag exactly when the enrichment author list
\* is non-empty; else the source tag for a scraped list that is non-empty and
\* not truncated, the source-truncated tag for one that is non-empty and
\* flagged truncated; and "unknown" exactly when the final author list is empty.
C18_ProvenanceTag ==
    Enriching =>
        \A i \in DOMAIN enriched :
            /\ enriched[i].author_source = ClaimedTag(combined_records[i], EntryOf(i))
            /\ enriched[i].author_source = "crossref" <=> enriched[i].authors_crossref # <<>>
            /\ enriched[i].author_source = "unknown" <=> enriched[i].final_authors = <<>>
            /\ enriched[i].author_source \in {"scholar", "scholar_truncated"} =>
                   enriched[i].final_authors = combined_records[i].authors_list

\* One enriched record carries the source-truncated tag (its author line ends
\* with an ellipsis) and another one, without any author, the tag "unknown".
C18_Witness ==
    /\ Enriching
    /\ \E i \in DOMAIN enriched :
           /\ enriched[i].author_source = "scholar_truncated"
           /\ Contains(combined_records[i].authors_raw, <<ELLIPSIS>>)
    /\ \E i \in DOMAIN enriched :
           /\ enriched[i].author_source = "unknown"
           /\ combined_records[i].authors_list = <<>>

\* ------------------------------------------------------------------------
\* C19
\* ------------------------------------------------------------------------

\* The entries the requests of this run created.
CreatedKeys == {normalize_title(sent[k].title) : k \in DOMAIN sent}

\* C19 as claimed: every enriched record has a match status among ok,
\* no_match, error and unqueried, whatever the cache entry used for it.
C19_StatusEnum ==
    \A i \in DOMAIN enriched :
        enriched[i].crossref_status \in {"ok", "no_match", "error", "unqueried"}

\* C19 (amended): the match status of every enriched record is the status of
\* the cache entry used for it, whatever status an entry read from the cache
\* file holds, and "unknown" when that entry has no status; the entries a
\* request of the run creates have one of ok, no_match, error, so a record
\* whose status is none of these was enriched from an entry read from the
\* file.
C19_StatusOfEntry ==
    Enriching =>
        /\ \A i \in DOMAIN enriched :
               /\ "status" \in DOMAIN EntryOf(i) =>
                      enriched[i].crossref_status = EntryOf(i).status
               /\ "status" \notin DOMAIN EntryOf(i) =>
                      enriched[i].crossref_status = "unknown"
               /\ enriched[i].crossref_status \notin {"ok", "no_match", "error"} =>
                      /\ normalize_title(enriched[i].title) \notin CreatedKeys
                      /\ normalize_title(enriched[i].title) \in DOMAIN load_crossref_cache(cacheFile)
        /\ \A key \in CreatedKeys : cache[key].status \in {"ok", "no_match", "error"}

\* In the first run, over the cache file {"xy": {"status": "unqueried"}}: a
\* record was enriched from the entry of the file and has its status,
\* unqueried, and another one from an entry a request of the run created.
C19_Witness ==
    /\ Enriching
    /\ run = 1
    /\ \E i \in DOMAIN enriched :
           /\ normalize_title(enriched[i].title) \notin CreatedKeys
           /\ EntryOf(i) = [status |-> "unqueried"]
           /\ enriched[i].crossref_status = "unqueried"
    /\ \E i \in DOMAIN enriched :
           /\ normalize_title(enriched[i].title) \in CreatedKeys
           /\ enriched[i].crossref_status \in {"ok", "no_match", "error"}

\* ------------------------------------------------------------------------
\* C20
\* ------------------------------------------------------------------------

\* ceil(n / d)
Ceil(n, d) == (n + d - 1) \div d

\* This step is an iteration of the loop of scrape_years whose page came back.
PageAnswered == pc = "scrape" /\ (start' # start \/ scope' # scope)

\* C20: the loop over the pages of a scope ends at the first page without
\* records, or as soon as the next start offset reaches the total read on
\* the first page of the scope; with a total N > 0 no page beyond
\* ceil(N / 10) is requested, so the loop terminates.
C20_PaginationStops ==
    /\ (pc = "scrape" /\ total_expected # NoYear) => start < total_expected
    /\ [][ PageAnswered =>
              /\ total_expected # NoYear =>
                     start \div RESULTS_PER_PAGE + 1 <= Ceil(total_expected, RESULTS_PER_PAGE)
              /\ scope' = scope =>
                     /\ Len(collected') > Len(collected)
                     /\ start' = start + RESULTS_PER_PAGE
                     /\ total_expected' # NoYear => start' < total_expected'
              /\ scope' # scope =>
                     /\ scope' = scope + 1
                     /\ start' = 0 /\ total_expected' = NoYear
                     /\ Len(scraped_by_year') = scope
                     /\ Len(scraped_by_year'[scope]) > Len(collected) =>
                            (start = 0 \/ start + RESULTS_PER_PAGE >= total_expected)
          ]_vars

\* The first page of a scope reported a total of 11 and brought records: the
\* loop is about to request the second page, the last one the total allows.
C20_Witness ==
    /\ pc = "scrape"
    /\ start = RESULTS_PER_PAGE
    /\ total_expected = 11
    /\ collected # <<>>

\* ------------------------------------------------------------------------
\* C21
\* ------------------------------------------------------------------------

\* The cursors of the requests for pages of citing works, in request order.
WorksCursors ==
    Only({ [i \in DOMAIN works |-> works[i].cursor]
           : works \in {SelectSeq(oa_requests, LAMBDA r : r.url = "works")} })

\* fetch_citing_works has returned to main.
CitingWorksFetched ==
    /\ oa_requests # <<>>
    /\ oa_pc \in {"write_raw", "filter", "report"} \/ (oa_pc = "exited" /\ exit_code = 0)

\* C21: fetch_citing_works starts at cursor "*" (the first page), requests
\* the page of each cursor once and in order, stops after the first answer
\* without a next cursor, and returns the results of all the pages requested
\* one after the other in request order.
C21_CursorFollowed ==
    /\ oa_pc = "fetch_pages" =>
           /\ cursor \in 1..Len(oa_server)
           /\ WorksCursors = [i \in 1..(cursor - 1) |-> i]
           /\ citing_records = JsonList(Flatten(SubSeq(oa_server, 1, cursor - 1)))
    /\ CitingWorksFetched =>
           /\ WorksCursors = [i \in 1..Len(oa_server) |-> i]
           /\ \A i \in DOMAIN oa_requests : oa_requests[i].outcome = "ok"
           /\ citing_records = JsonList(Flatten(oa_server))

\* Three pages were requested, the second without results, and the three
\* works came back in page order.
C21_Witness ==
    /\ oa_pc = "write_raw"
    /\ WorksCursors = <<1, 2, 3>>
    /\ citing_records.items = <<oaW1, oaW2, oaW3>>

\* ------------------------------------------------------------------------
\* C22
\* ------------------------------------------------------------------------

\* The candidate the claim selects for the response resp and the normalized
\* query norm_title: the index of the earliest titled candidate whose score is
\* the highest, 0 for none when no titled candidate scores above 0.
SelectedCandidate(resp, norm_title) ==
    Only({ Only({ IF \A i \in titled : score[i].num = 0 THEN 0
                  ELSE CHOOSE i \in titled :
                           /\ \A j \in titled : ~ ScoreLT(score[i], score[j])
                           /\ \A j \in titled : j < i => ScoreLT(score[j], score[i])
                  : score \in {[i \in titled |->
                                  sequence_score(normalize_title(resp.items[i].title[1]),
                                                 norm_title)]} })
           : titled \in {{i \in DOMAIN resp.items : resp.items[i].title # <<>>}} })

\* C22: on a cache miss, query_crossref selects the titled candidate with
\* the highest normalized-title similarity to the normalized query, the
\* earliest one when several share the highest score; candidates without a
\* title are ignored and none is selected when every score is 0. An accepted
\* selection gives the entry its DOI.
C22_BestCandidate ==
    \A k \in DOMAIN sent :
        sent[k].resp.ok =>
            \E nt \in {normalize_title(sent[k].title)} :
            \E sel \in {SelectedCandidate(sent[k].resp, nt)} :
            \E best \in {BestMatch(sent[k].resp.items, Len(sent[k].resp.items), nt)} :
                /\ best.best_item = sel
                /\ sel = 0 => best.best_score = Frac(0, 1) /\ cache[nt].status = "no_match"
                /\ sel # 0 =>
                       /\ best.best_score =
                              sequence_score(normalize_title(sent[k].resp.items[sel].title[1]), nt)
                       /\ cache[nt].score = best.best_score
                       /\ cache[nt].status = "ok" => cache[nt].doi = sent[k].resp.items[sel].DOI

\* A request came back with two candidates that share the highest score, and
\* the first was taken; another came back with a titled candidate of score 0
\* only, and none was taken.
C22_Witness ==
    /\ \E k \in DOMAIN sent :
           /\ sent[k].resp = Response(<<wNoTitle, wSix, wSixB>>)
           /\ cache[normalize_title(sent[k].title)].status = "ok"
           /\ cache[normalize_title(sent[k].title)].doi = wSix.DOI
    /\ \E k \in DOMAIN sent :
           /\ sent[k].resp = Response(<<wExact>>)
           /\ cache[normalize_title(sent[k].title)] = [status |-> "no_match", score |-> Frac(0, 1)]

\* ------------------------------------------------------------------------
\* C23
\* ------------------------------------------------------------------------

\* The file at the output path holds a JSON document that is not empty.
CachedDocument == rawFile.kind = "json" /\ Truthy(rawFile.data)

\* C23: without force-refresh and with a non-empty JSON document cached at
\* the output path, the run sends no request and goes on with the cached
\* records, whichever script wrote them; with force-refresh the target work
\* is requested first and then its citing works, whatever the file holds.
\* Requests are sent only while fetching, so a run that used the cached
\* document, or that ended while reading the file, never sends one.
C23_CacheOrRefresh ==
    /\ oa_pc = "fetch_pages" => oa_requests # <<>>
    /\ (oa_requests # <<>> /\ oa_pc \in {"write_raw", "filter", "report"}) =>
           citing_records = JsonList(Flatten(oa_server))
    /\ [][ /\ (oa_pc = "start" /\ ~ force_refresh /\ CachedDocument) =>
                  /\ oa_requests' = <<>>
                  /\ citing_records' = rawFile.data
                  /\ oa_pc' = "write_raw"
           /\ (oa_pc = "start" /\ ~ force_refresh /\ load_json_raises(rawFile)) =>
                  oa_requests' = <<>> /\ oa_pc' = "exited"
           /\ (oa_pc = "start" /\ force_refresh) =>
                  /\ Len(oa_requests') = 1
                  /\ oa_requests'[1].url = "work"
                  /\ oa_requests'[1].outcome = "ok" =>
                         oa_pc' = "fetch_pages" /\ cursor' = 1
           /\ oa_requests' # oa_requests => oa_pc \in {"start", "fetch_pages"}
         ]_vars

\* A run without force-refresh ended on the cached works without a request,
\* or a run with force-refresh fetched the pages although works were cached.
C23_Witness ==
    \/ /\ ~ force_refresh
       /\ oa_pc = "exited" /\ exit_code = 0
       /\ oa_requests = <<>>
       /\ citing_records = JsonList(<<oaW3, oaW2>>)
       /\ reports.markdown.written
    \/ /\ force_refresh
       /\ oa_pc = "write_raw"
       /\ rawFile.data = JsonList(<<oaW3, oaW2>>)
       /\ citing_records = JsonList(<<oaW1, oaW2, oaW3>>)

\* ------------------------------------------------------------------------
\* C24
\* ------------------------------------------------------------------------

\* The records before record j whose title normalizes to nt.
EarlierSameTitle(j, nt) ==
    {i \in 1..(j - 1) : normalize_title(combined_records[i].title) = nt}

\* C24: within one run of enrich_records at most one request is sent per
\* normalized title. When an earlier record of the deduplicated set has a
\* title that normalizes like the title of the record being enriched, no
\* request is sent for it and it gets the status, score, DOI, venue and
\* enrichment authors of the earlier record.
C24_OneRequestPerTitle ==
    [][ (pc = "enrich" /\ pos' = pos + 1) =>
            \E nt \in {normalize_title(combined_records[pos + 1].title)} :
                /\ Len(sent') > Len(sent) =>
                       \A k \in DOMAIN sent : normalize_title(sent[k].title) # nt
                /\ \A i \in EarlierSameTitle(pos + 1, nt) :
                       /\ sent' = sent
                       /\ enriched'[pos + 1].crossref_status = enriched[i].crossref_status
                       /\ enriched'[pos + 1].crossref_score = enriched[i].crossref_score
                       /\ enriched'[pos + 1].doi = enriched[i].doi
                       /\ enriched'[pos + 1].journal = enriched[i].journal
                       /\ enriched'[pos + 1].authors_crossref = enriched[i].authors_crossref
      ]_vars

\* Two records with different cluster ids whose titles normalize equal have
\* been enriched with one request, sent for the first, and hold the same DOI.
C24_Witness ==
    /\ pc = "enrich"
    /\ \E i, j \in DOMAIN enriched :
           /\ i < j
           /\ combined_records[i].cluster_id # <<>>
           /\ combined_records[j].cluster_id # <<>>
           /\ combined_records[i].cluster_id # combined_records[j].cluster_id
           /\ combined_records[i].title # combined_records[j].title
           /\ normalize_title(combined_records[i].title) = normalize_title(combined_records[j].title)
           /\ {sent[k].index : k \in DOMAIN sent} = {i}
           /\ enriched[i].doi # <<>>
           /\ enriched[j].doi = enriched[i].doi

\* ------------------------------------------------------------------------
\* C25
\* ------------------------------------------------------------------------

\* The cache file holds an entry of status "error" for the normalized title nt.
ErrorOnFile(nt) ==
    /\ nt \in DOMAIN cacheFile.data
    /\ Get(cacheFile.data[nt], "status", "") = "error"

\* C25: in a run that follows a completed run, a title for which the cache
\* file holds an entry of status "error" is not requested again: the record
\* gets the error entry from the cache, stays without DOI, venue and
\* enrichment authors, and the save at the end of the run leaves the entry
\* in the file.
C25_ErrorIsSticky ==
    [][ run >= 2 =>
          /\ (pc = "enrich" /\ pos' = pos + 1) =>
                 \E nt \in {normalize_title(combined_records[pos + 1].title)} :
                     ErrorOnFile(nt) =>
                         /\ sent' = sent
                         /\ cache'[nt] = cacheFile.data[nt]
                         /\ enriched'[pos + 1].crossref_status = "error"
                         /\ enriched'[pos + 1].doi = <<>>
                         /\ enriched'[pos + 1].journal = <<>>
                         /\ enriched'[pos + 1].authors_crossref = <<>>
          /\ cacheFile' # cacheFile =>
                 \A nt \in DOMAIN cacheFile.data :
                     ErrorOnFile(nt) =>
                         nt \in DOMAIN cacheFile'.data /\ cacheFile'.data[nt] = cacheFile.data[nt]
      ]_vars

\* The request for a record failed in the first run; the second run has
\* enriched the record from the error entry of the file without a request.
C25_Witness ==
    /\ run = 2
    /\ pc = "filter"
    /\ sent = <<>>
    /\ \E i \in DOMAIN enriched :
           /\ ErrorOnFile(normalize_title(combined_records[i].title))
           /\ enriched[i].crossref_status = "error"
           /\ enriched[i].doi = <<>>

\* ------------------------------------------------------------------------
\* C26
\* ------------------------------------------------------------------------

\* A request of the run raised.
RequestRaised == \E i \in DOMAIN oa_requests : oa_requests[i].outcome # "ok"

\* C26: when the request for the target work or for a page of citing works
\* raises, the run ends there and writes none of the raw JSON file, the CSV
\* file and the Markdown summary: the files are written only after every
\* request has been answered, so they keep the content they had before the
\* run and the results of the pages fetched before the failure are not kept.
C26_FailedFetchWritesNothing ==
    /\ oa_pc \in {"start", "fetch_pages"} => reports = OldReports /\ rawFile \in RawJsonPool
    /\ oa_pc \in {"write_raw", "filter", "report"} => ~ RequestRaised
    /\ RequestRaised => oa_pc = "exited" /\ reports = OldReports /\ rawFile \in RawJsonPool
    /\ [][ /\ oa_pc = "exited" => UNCHANGED <<oa_pc, oa_requests>>
           /\ rawFile' # rawFile => oa_pc = "write_raw"
           /\ reports' # reports => oa_pc = "report"
           /\ (oa_requests' # oa_requests /\ oa_requests'[Len(oa_requests')].outcome # "ok") =>
                  /\ oa_pc' = "exited"
                  /\ UNCHANGED <<rawFile, reports>>
         ]_vars

\* The request for the third page raised after two pages had been fetched:
\* the run has ended, the raw file holds the works cached before the run and
\* the reports are not written.
C26_Witness ==
    /\ oa_pc = "exited"
    /\ Len(oa_requests) = 4
    /\ oa_requests[4] = Request("works", 3, "HTTPError")
    /\ rawFile = [kind |-> "json", data |-> JsonList(<<oaW3, oaW2>>)]
    /\ reports = OldReports

\* ------------------------------------------------------------------------
\* C27
\* ------------------------------------------------------------------------

\* The rows of the CSV that have a year.
RowsWithYear == {i \in DOMAIN reports.csv.rows : ~ reports.csv.rows[i].year.missing}

\* The sum of the counts of year_distribution.
RECURSIVE SumCounts(_, _)
SumCounts(counts, ys) ==
    IF ys = {} THEN 0
    ELSE Only({ counts[y] + SumCounts(counts, ys \ {y}) : y \in {CHOOSE y \in ys : TRUE} })

\* C27: the report generator completes on every CSV the script writes: a
\* row with the placeholder of a missing year is skipped, and the counts per
\* year sum to the number of rows that have a year.
C27_GeneratorCompletes ==
    /\ generator.at # "raised"
    /\ generator.at = "done" =>
           SumCounts(generator.year_distribution, DOMAIN generator.year_distribution)
               = Cardinality(RowsWithYear)

\* ------------------------------------------------------------------------
\* C28
\* ------------------------------------------------------------------------

\* Records r1 and r2, with normalized titles t1 and t2, are one record for the
\* claim: the same cluster id, or no cluster id on either and equal
\* normalized titles.
Matches(r1, t1, r2, t2) ==
    \/ r1.cluster_id # <<>> /\ r1.cluster_id = r2.cluster_id
    \/ r1.cluster_id = <<>> /\ r2.cluster_id = <<>> /\ t1 = t2

\* C28: the deduplication pass drops a fetched record exactly when an
\* earlier fetched record has its cluster id, or when neither has a cluster
\* id and their titles normalize equal. A record with a cluster id is never
\* matched against a record without one, nor against one of another
\* cluster, whatever their titles; records of one cluster are merged even
\* when their titles differ.
C28_ClusterNeverMatchesTitle ==
    [][ (pc = "dedup" /\ pc' = "persist_raw") =>
            \E nt \in {[i \in DOMAIN Fetched |-> normalize_title(Fetched[i].title)]} :
                combined_records' =
                    SubsequenceAt(Fetched,
                                  {j \in DOMAIN Fetched :
                                      \A i \in 1..(j - 1) :
                                          ~ Matches(Fetched[i], nt[i], Fetched[j], nt[j])})
      ]_vars

\* The combined set holds a record with a cluster id and one without whose
\* titles normalize equal, and a fetched record of the same cluster with
\* another title was dropped.
C28_Witness ==
    /\ pc = "persist_raw"
    /\ \E i, j \in DOMAIN combined_records :
           /\ combined_records[i].cluster_id # <<>>
           /\ combined_records[j].cluster_id = <<>>
           /\ normalize_title(combined_records[i].title) = normalize_title(combined_records[j].title)
           /\ \E k \in DOMAIN Fetched :
                  /\ Fetched[k].cluster_id = combined_records[i].cluster_id
                  /\ normalize_title(Fetched[k].title) # normalize_title(combined_records[i].title)
                  /\ \A m \in DOMAIN combined_records : combined_records[m].title # Fetched[k].title

====
